---------------------------- MODULE Spec2Model ----------------------------
(***************************************************************************)
(* A model of varlociraptor (PROSIC/libprosic): the preprocessing pipeline *)
(* (calling/variants/preprocessing/mod.rs), the observation encoding, the  *)
(* SNV base likelihoods and the posterior's integration grid.              *)
(***************************************************************************)
EXTENDS Integers, Sequences, FiniteSets, TLC

VARIABLES
    \* ---- preprocessing pipeline (ObservationProcessor::process) ----
    input,                    \* the candidate records of inbcf, in file order
    nworkers,                 \* number of samples in sample_container (one worker each)
    breakend_index,           \* BreakendIndex: event -> index of the event's last record
    pre_i,                    \* the preprocessor's counter i
    pre_done,                 \* the preprocessor returned (its sender is dropped)
    in_chan,                  \* bounded channel of RecordInfo
    out_chan,                 \* bounded channel of Calls
    wstate,                   \* per worker: idle | got | tosend | failed | done
    wrec,                     \* per worker: the RecordInfo it received
    wcalls,                   \* per worker: the Calls it is about to send
    breakend_group_builders,  \* event -> absent | Some(builder) | None
    breakend_groups,          \* event -> absent | group
    buffer,                   \* the postprocessor's reorder buffer
    next_index,               \* index of the next bundle to write
    written,                  \* calls handed to write_preprocessed_record, in order
    post_done,                \* the postprocessor thread ended
    result,                   \* what process() returned: running | ok | err
    exit_code,                \* the process' exit code (NoExit while running)
    stdout,                   \* the lines main printed to STDOUT
    stderr,                   \* the lines main printed to STDERR
    \* ---- push_values / read_values on a serialized byte sequence ----
    encoded_values,           \* the bytes bincode::serialize returned
    values_i32,               \* the integers pushed into the INFO field
    values_u8,                \* the bytes read_values hands to bincode::deserialize
    val_stage,                \* init | pushed | read
    \* ---- write_observations / read_observations on one BCF record ----
    pileup,                   \* the observations given to write_observations
    bcf_record,               \* INFO tag -> integers (empty when the tag is absent)
    decoded,                  \* what read_observations returned
    obs_stage,                \* init | written | read
    \* ---- the header of a preprocessed BCF ----
    writer_version,           \* OBSERVATION_FORMAT_VERSION of the build that preprocessed
    writer_options,           \* the options of the preprocessing run
    n_contigs,                \* number of reference sequences
    header,                   \* the header records of the BCF
    options_result,           \* what read_preprocess_options returned
    hdr_stage,                \* init | written | read
    \* ---- SNV allele likelihoods ----
    snv_in,                   \* read base, reference base, alt base, base quality
    snv_out,                  \* (prob_ref, prob_alt) of prob_snv
    snv_stage,                \* init | done
    \* ---- GenericPosterior::grid_points ----
    grid_pileups,             \* per sample: the pileup's number of observations
    grid_resolutions,         \* per sample: the resolution
    grid_out,                 \* what grid_points returned
    grid_stage,               \* init | done
    \* ---- Bias::is_likely ----
    bias_is_default,          \* the bias equals Self::default() (the none value)
    bias_pileups,             \* per pileup: how many observations of each kind it holds
    bias_likely,              \* what Bias::is_likely returned
    bias_stage,               \* init | done
    \* ---- Biases::all_artifact_combinations ----
    consider,                 \* the four consider_* flags, by component
    combos_pos,               \* how many tuples of the cartesian product the iterator has consumed
    combos_out,               \* the Biases the iterator has yielded, in order
    combos_stage,             \* iterating, or done (next() returned None)
    \* ---- RecordBuffer over an indexed BAM ----
    rb_bam,                   \* the records of the BAM, by chromosome, in BAM order
    rb_window,                \* RecordBuffer.window
    rb_use_secondary,         \* RecordBuffer.use_secondary
    rb_reader,                \* the reader: the chromosome and start of its region, and its cursor
    rb_inner,                 \* RecordBuffer.inner: the buffered records, front first
    rb_log,                   \* the records read from the reader since its last seek
    rb_call,                  \* the last fill call and how it returned
    \* ---- emission parameters of the indel alleles ----
    em_params,                \* the emission parameters handed to the pair HMM
    em_i,                     \* the index of the last call of ref_base
    em_base,                  \* what the last call of ref_base returned, or that it panicked
    em_stage,                 \* "idle", "new", "emitted" or "panicked"
    \* ---- Testcase: the candidate of a test case ----
    tc_overflow_checks,       \* the build checks integer overflow (debug) or wraps (release)
    tc_locus,                 \* the captures of TESTCASE_RE on --testcase-locus
    tc_candidates,            \* the records of the candidate file, in file order
    tc_builder,               \* what TestcaseBuilder::locus returned
    tc_written,               \* what Testcase::write returned, and the candidate it chose
    tc_stage,                 \* "idle", "new", "built", "written" or "failed"
    \* ---- prob_read_snv on one read ----
    rs_pos,                   \* record.pos()
    rs_cigar,                 \* the CIGAR of the read
    rs_vpos,                  \* the position of the SNV
    rs_out,                   \* what prob_read_snv returned: the query offset it read, None, or a panic
    rs_stage,                 \* "idle", "new" or "done"
    \* ---- adjust_mapq on the observations of one variant ----
    mq_observations,          \* the observations, before and after adjust_mapq
    mq_before,                \* the observations handed to adjust_mapq
    mq_stage,                 \* "idle", "new" or "adjusted"
    \* ---- n_fragment_positions ----
    nf_overflow_checks,       \* the build checks integer overflow (debug) or wraps (release)
    nf_args,                  \* insert_size, left_read_len, right_read_len, window
    nf_out,                   \* what n_fragment_positions returned, or that it panicked
    nf_stage,                 \* "idle", "new" or "done"
    \* ---- GenericPosterior::compute ----
    gp_event,                 \* the event: its VAF tree (the root nodes) and its strand bias
    gp_resolutions,           \* per sample: the resolution
    gp_pileups,               \* per sample: the pileup's number of observations
    gp_i,                     \* number of root nodes of the VAF tree already explored
    gp_out,                   \* per explored root node: the subdensity evaluations and joint_prob calls
    gp_stage,                 \* "idle", "new" or "done"
    \* ---- GenericLikelihood::compute ----
    lk_inner,                 \* GenericLikelihood.inner: per sample "Normal" or Contaminated with its `by`
    lk_cache,                 \* the shared Cache: sample index -> kind of its CacheEntry (or none yet)
    lk_events,                \* the event vector of the latest call
    lk_out,                   \* the latest call: per sample the events it was evaluated with, or a panic
    lk_calls,                 \* number of compute calls made with the cache
    lk_stage,                 \* "idle" or "run"
    \* ---- Sample::extract_observations ----
    xo_use_fragment_evidence, \* Sample.use_fragment_evidence
    xo_variant,               \* the variant: its kind, start and length
    xo_records,               \* the records of record_buffer after fill, in buffer order
    xo_pairs,                 \* the map pairs at the end of the loop: qname -> index of the record that was inserted
    xo_observations,          \* the returned observations: kind, index of the record, index of the mate's record
    xo_stage,                 \* "idle", "new" or "done"
    \* ---- prob_read_indel ----
    ri_overflow_checks,       \* the build checks integer overflow (debug) or wraps (release)
    ri_read,                  \* the record: pos and cigar
    ri_variant,               \* the variant: its kind, start and length
    ri_out,                   \* whether the assertion held, and per evaluated shift p the adjusted length l
    ri_stage                  \* "idle", "new" or "done"

pipeVars == <<input, nworkers, breakend_index, pre_i, pre_done, in_chan, out_chan,
              wstate, wrec, wcalls, breakend_group_builders, breakend_groups,
              buffer, next_index, written, post_done, result, exit_code,
              stdout, stderr>>

valVars == <<encoded_values, values_i32, values_u8, val_stage>>
obsVars == <<pileup, bcf_record, decoded, obs_stage>>
hdrVars == <<writer_version, writer_options, n_contigs, header, options_result, hdr_stage>>
snvVars == <<snv_in, snv_out, snv_stage>>
gridVars == <<grid_pileups, grid_resolutions, grid_out, grid_stage>>

biasVars == <<bias_is_default, bias_pileups, bias_likely, bias_stage>>

combosVars == <<consider, combos_pos, combos_out, combos_stage>>

rbVars == <<rb_bam, rb_window, rb_use_secondary, rb_reader, rb_inner, rb_log, rb_call>>

emVars == <<em_params, em_i, em_base, em_stage>>

tcVars == <<tc_overflow_checks, tc_locus, tc_candidates, tc_builder, tc_written, tc_stage>>

rsVars == <<rs_pos, rs_cigar, rs_vpos, rs_out, rs_stage>>

mqVars == <<mq_observations, mq_before, mq_stage>>

nfVars == <<nf_overflow_checks, nf_args, nf_out, nf_stage>>

gpVars == <<gp_event, gp_resolutions, gp_pileups, gp_i, gp_out, gp_stage>>

lkVars == <<lk_inner, lk_cache, lk_events, lk_out, lk_calls, lk_stage>>

xoVars == <<xo_use_fragment_evidence, xo_variant, xo_records, xo_pairs, xo_observations, xo_stage>>

riVars == <<ri_overflow_checks, ri_read, ri_variant, ri_out, ri_stage>>

vars == <<pipeVars, valVars, obsVars, hdrVars, snvVars, gridVars, biasVars,
        combosVars, rbVars, emVars, tcVars, rsVars, mqVars, nfVars, gpVars,
        lkVars, xoVars, riVars>>

nonPipeVars == <<valVars, obsVars, hdrVars, snvVars, gridVars, biasVars,
        combosVars, rbVars, emVars, tcVars, rsVars, mqVars, nfVars, gpVars,
        lkVars, xoVars, riVars>>
nonValVars == <<pipeVars, obsVars, hdrVars, snvVars, gridVars, biasVars,
        combosVars, rbVars, emVars, tcVars, rsVars, mqVars, nfVars, gpVars,
        lkVars, xoVars, riVars>>
nonObsVars == <<pipeVars, valVars, hdrVars, snvVars, gridVars, biasVars,
        combosVars, rbVars, emVars, tcVars, rsVars, mqVars, nfVars, gpVars,
        lkVars, xoVars, riVars>>
nonHdrVars == <<pipeVars, valVars, obsVars, snvVars, gridVars, biasVars,
        combosVars, rbVars, emVars, tcVars, rsVars, mqVars, nfVars, gpVars,
        lkVars, xoVars, riVars>>
nonSnvVars == <<pipeVars, valVars, obsVars, hdrVars, gridVars, biasVars,
        combosVars, rbVars, emVars, tcVars, rsVars, mqVars, nfVars, gpVars,
        lkVars, xoVars, riVars>>
nonGridVars == <<pipeVars, valVars, obsVars, hdrVars, snvVars, biasVars,
        combosVars, rbVars, emVars, tcVars, rsVars, mqVars, nfVars, gpVars,
        lkVars, xoVars, riVars>>
nonBiasVars == <<pipeVars, valVars, obsVars, hdrVars, snvVars, gridVars,
        combosVars, rbVars, emVars, tcVars, rsVars, mqVars, nfVars, gpVars,
        lkVars, xoVars, riVars>>
nonCombosVars == <<pipeVars, valVars, obsVars, hdrVars, snvVars, gridVars,
        biasVars, rbVars, emVars, tcVars, rsVars, mqVars, nfVars, gpVars,
        lkVars, xoVars, riVars>>
nonRbVars == <<pipeVars, valVars, obsVars, hdrVars, snvVars, gridVars,
        biasVars, combosVars, emVars, tcVars, rsVars, mqVars, nfVars, gpVars,
        lkVars, xoVars, riVars>>
nonEmVars == <<pipeVars, valVars, obsVars, hdrVars, snvVars, gridVars,
        biasVars, combosVars, rbVars, tcVars, rsVars, mqVars, nfVars, gpVars,
        lkVars, xoVars, riVars>>
nonTcVars == <<pipeVars, valVars, obsVars, hdrVars, snvVars, gridVars,
        biasVars, combosVars, rbVars, emVars, rsVars, mqVars, nfVars, gpVars,
        lkVars, xoVars, riVars>>
nonRsVars == <<pipeVars, valVars, obsVars, hdrVars, snvVars, gridVars,
        biasVars, combosVars, rbVars, emVars, tcVars, mqVars, nfVars, gpVars,
        lkVars, xoVars, riVars>>
nonMqVars == <<pipeVars, valVars, obsVars, hdrVars, snvVars, gridVars,
        biasVars, combosVars, rbVars, emVars, tcVars, rsVars, nfVars, gpVars,
        lkVars, xoVars, riVars>>
nonNfVars == <<pipeVars, valVars, obsVars, hdrVars, snvVars, gridVars,
        biasVars, combosVars, rbVars, emVars, tcVars, rsVars, mqVars, gpVars,
        lkVars, xoVars, riVars>>
nonGpVars == <<pipeVars, valVars, obsVars, hdrVars, snvVars, gridVars,
        biasVars, combosVars, rbVars, emVars, tcVars, rsVars, mqVars, nfVars,
        lkVars, xoVars, riVars>>
nonLkVars == <<pipeVars, valVars, obsVars, hdrVars, snvVars, gridVars,
        biasVars, combosVars, rbVars, emVars, tcVars, rsVars, mqVars, nfVars,
        gpVars, xoVars, riVars>>
nonXoVars == <<pipeVars, valVars, obsVars, hdrVars, snvVars, gridVars,
        biasVars, combosVars, rbVars, emVars, tcVars, rsVars, mqVars, nfVars,
        gpVars, lkVars, riVars>>
nonRiVars == <<pipeVars, valVars, obsVars, hdrVars, snvVars, gridVars,
        biasVars, combosVars, rbVars, emVars, tcVars, rsVars, mqVars, nfVars,
        gpVars, lkVars, xoVars>>

-----------------------------------------------------------------------------
(* Bounds of the model *)
MaxRecords == 3
MaxWorkers == 2

(* Program constants *)
threads == 2

Events == {"e1"}
NoIndex == -1
NoExit == -1
NoEvent == "-"

Max(a, b) == IF a >= b THEN a ELSE b
Min(a, b) == IF a <= b THEN a ELSE b

-----------------------------------------------------------------------------
(* Candidate variants.  `fails' marks a variant whose evidence extraction  *)
(* (Sample::extract_observations, reference_buffer.seq) returns an error;  *)
(* `supported' is false for a breakend for which Breakend::new is None.    *)
SNV(f) == [type |-> "snv", event |-> NoEvent, supported |-> TRUE, fails |-> f]
BND(e, s) == [type |-> "bnd", event |-> e, supported |-> s, fails |-> FALSE]

is_breakend(variant) == variant.type = "bnd"

RecordKinds ==
    { <<>>,
      <<SNV(FALSE)>>,
      <<SNV(TRUE)>>,
      <<BND("e1", TRUE)>>,
      <<BND("e1", FALSE)>>,
      <<SNV(FALSE), SNV(FALSE)>>,
      <<BND("e1", TRUE), SNV(FALSE)>> }

Inputs == UNION { [1..n -> RecordKinds] : n \in 0..MaxRecords }

HasEvent(rec, e) == \E k \in 1..Len(rec) : is_breakend(rec[k]) /\ rec[k].event = e

EventRecords(inp, e) == { i \in 0..(Len(inp) - 1) : HasEvent(inp[i + 1], e) }

SetMax(S) == CHOOSE x \in S : \A y \in S : y <= x

(* BreakendIndex::last_record_index: None (NoIndex) for an unknown event *)
last_record_index(inp, e) ==
    IF EventRecords(inp, e) = {} THEN NoIndex ELSE SetMax(EventRecords(inp, e))

-----------------------------------------------------------------------------
(* The preprocessor's RecordInfo for the i-th record read (0-based).       *)
(* `locus' stands for (chrom, start, record_id, record_mateid), which      *)
(* identify the input record.                                              *)
RecordInfoReversed(i) ==
    [locus |-> i, variants |-> input[i + 1], record_index |-> Len(input) - 1 - i]

RecordInfo(i) ==
    [locus |-> i, variants |-> input[i + 1], record_index |-> i]

NoRecord == [locus |-> NoIndex, variants |-> <<>>, record_index |-> NoIndex]
NoCalls == [index |-> NoIndex, calls |-> <<>>]

AbsentBuilder == [st |-> "absent", bnds |-> <<>>]
SomeBuilder(bnds) == [st |-> "some", bnds |-> bnds]
NoneBuilder == [st |-> "none", bnds |-> <<>>]
AbsentGroup == [present |-> FALSE, bnds |-> <<>>]
Group(bnds) == [present |-> TRUE, bnds |-> bnds]

(* Breakend::new(locus, ref_allele, spec, record_id, record_mateid) *)
Breakend(rec_info) == [locus |-> rec_info.locus]

(* ObservationProcessor::process_variant.  Returns the updated maps and    *)
(* res: "err" (Err), "none" (Ok(None)) or "some" (Ok(Some(pileup))).       *)
process_variant(variant, rec_info, builders, groups) ==
    IF ~is_breakend(variant)
    THEN [builders |-> builders, groups |-> groups,
          res |-> IF variant.fails THEN "err" ELSE "some"]
    ELSE
    LET event == variant.event
        b1 == IF builders[event].st = "absent"
              THEN [builders EXCEPT ![event] = SomeBuilder(<<>>)]
              ELSE builders
    IN  IF b1[event].st = "some"
        THEN IF variant.supported
             THEN LET b2 == [b1 EXCEPT ![event] =
                                SomeBuilder(Append(b1[event].bnds, Breakend(rec_info)))]
                  IN  IF breakend_index[event] = rec_info.record_index
                      THEN [builders |-> b2,
                            groups |-> [groups EXCEPT ![event] = Group(b2[event].bnds)],
                            res |-> IF variant.fails THEN "err" ELSE "some"]
                      ELSE [builders |-> b2, groups |-> groups, res |-> "none"]
             ELSE [builders |-> [b1 EXCEPT ![event] = NoneBuilder],
                   groups |-> groups, res |-> "none"]
        ELSE [builders |-> b1, groups |-> groups, res |-> "none"]

(* A Call: of a candidate record (kind "rec", with the record's variants)  *)
(* or of one breakend of a group (kind "bnd").                             *)
RecordCall(rec_info, variants) ==
    [kind |-> "rec", locus |-> rec_info.locus, event |-> NoEvent,
     variants |-> variants, pileup |-> TRUE]
BreakendCall(breakend, event, with_pileup) ==
    [kind |-> "bnd", locus |-> breakend.locus, event |-> event,
     variants |-> <<BND(event, TRUE)>>, pileup |-> with_pileup]

(* process_record, the branch for a record with a breakend (lines 284-330) *)
RECURSIVE BreakendBranch(_, _, _, _, _)
BreakendBranch(k, rec_info, builders, groups, calls) ==
    IF k > Len(rec_info.variants)
    THEN [builders |-> builders, groups |-> groups, res |-> "ok",
          bundle |-> [index |-> rec_info.record_index, calls |-> calls]]
    ELSE
    LET variant == rec_info.variants[k] IN
    IF ~is_breakend(variant)
    THEN BreakendBranch(k + 1, rec_info, builders, groups, calls)
    ELSE
    LET r == process_variant(variant, rec_info, builders, groups) IN
    IF r.res = "err"
    THEN [builders |-> r.builders, groups |-> r.groups, res |-> "err", bundle |-> NoCalls]
    ELSE IF r.res = "some"
    THEN LET bnds == r.groups[variant.event].bnds
             new == [j \in 1..Len(bnds) |-> BreakendCall(bnds[j], variant.event, j = 1)]
         IN  BreakendBranch(k + 1, rec_info, r.builders,
                            [r.groups EXCEPT ![variant.event] = AbsentGroup],
                            calls \o new)
    ELSE BreakendBranch(k + 1, rec_info, r.builders, r.groups, calls)

(* `return Ok(vec![])' names no index for the bundle of a record without   *)
(* variants: the bundle either carries no index or the record's index.     *)
EmptyBundles(rec_info) ==
    {NoCalls, [index |-> rec_info.record_index, calls |-> <<>>]}

(* process_record with the error of a failing variant swallowed: the call  *)
(* is built from the variants that could be processed                      *)
process_record_partial(rec_info, builders, groups) ==
    IF rec_info.variants = <<>>
    THEN [builders |-> builders, groups |-> groups, res |-> "ok", bundle |-> NoCalls]
    ELSE IF \A k \in 1..Len(rec_info.variants) : ~is_breakend(rec_info.variants[k])
    THEN [builders |-> builders, groups |-> groups, res |-> "ok",
          bundle |-> [index |-> rec_info.record_index,
                      calls |-> <<RecordCall(rec_info,
                                     SelectSeq(rec_info.variants, LAMBDA v : ~v.fails))>>]]
    ELSE BreakendBranch(1, rec_info, builders, groups, <<>>)

(* ObservationProcessor::process_record *)
process_record(rec_info, builders, groups) ==
    IF rec_info.variants = <<>>
    THEN \* return Ok(vec![]): an empty bundle, see EmptyBundles
         [builders |-> builders, groups |-> groups, res |-> "ok", bundle |-> NoCalls]
    ELSE IF \A k \in 1..Len(rec_info.variants) : ~is_breakend(rec_info.variants[k])
    THEN IF \E k \in 1..Len(rec_info.variants) : rec_info.variants[k].fails
         THEN [builders |-> builders, groups |-> groups, res |-> "err", bundle |-> NoCalls]
         ELSE [builders |-> builders, groups |-> groups, res |-> "ok",
               bundle |-> [index |-> rec_info.record_index,
                           calls |-> <<RecordCall(rec_info, rec_info.variants)>>]]
    ELSE BreakendBranch(1, rec_info, builders, groups, <<>>)

-----------------------------------------------------------------------------
Workers == 1..nworkers
Capacity == threads * 2

Stopped(w) == wstate[w] \in {"failed", "done"}
AllStopped == \A w \in Workers : Stopped(w)

PipeStart ==
    /\ input \in Inputs
    /\ nworkers \in 1..MaxWorkers
    /\ breakend_index = [e \in Events |-> last_record_index(input, e)]
    /\ pre_i = 0
    /\ pre_done = FALSE
    /\ in_chan = <<>>
    /\ out_chan = <<>>
    /\ wstate = [w \in 1..MaxWorkers |-> "idle"]
    /\ wrec = [w \in 1..MaxWorkers |-> NoRecord]
    /\ wcalls = [w \in 1..MaxWorkers |-> NoCalls]
    /\ breakend_group_builders = [e \in Events |-> AbsentBuilder]
    /\ breakend_groups = [e \in Events |-> AbsentGroup]
    /\ buffer = {}
    /\ next_index = 0
    /\ written = <<>>
    /\ post_done = FALSE
    /\ result = "running"
    /\ exit_code = NoExit
    /\ stdout = <<>>
    /\ stderr = <<>>

(* preprocessor: read the next record and send its RecordInfo *)
PreSend ==
    /\ ~pre_done
    /\ pre_i < Len(input)
    /\ ~AllStopped
    /\ Len(in_chan) < Capacity
    /\ in_chan' = Append(in_chan, RecordInfo(pre_i))
    /\ pre_i' = pre_i + 1
    /\ UNCHANGED <<nonPipeVars, input, nworkers, breakend_index, pre_done, out_chan, wstate, wrec,
                   wcalls, breakend_group_builders, breakend_groups, buffer,
                   next_index, written, post_done, result, exit_code,
                   stdout, stderr>>

(* preprocessor: every receiver is gone, send returns Err, which is ignored *)
PreSendDisconnected ==
    /\ ~pre_done
    /\ pre_i < Len(input)
    /\ AllStopped
    /\ pre_i' = pre_i + 1
    /\ UNCHANGED <<nonPipeVars, input, nworkers, breakend_index, pre_done, in_chan, out_chan, wstate,
                   wrec, wcalls, breakend_group_builders, breakend_groups, buffer,
                   next_index, written, post_done, result, exit_code,
                   stdout, stderr>>

(* preprocessor: end of file, return Ok(()) *)
PreEof ==
    /\ ~pre_done
    /\ pre_i = Len(input)
    /\ pre_done' = TRUE
    /\ UNCHANGED <<nonPipeVars, input, nworkers, breakend_index, pre_i, in_chan, out_chan, wstate,
                   wrec, wcalls, breakend_group_builders, breakend_groups, buffer,
                   next_index, written, post_done, result, exit_code,
                   stdout, stderr>>

(* worker: for rec_info in receiver *)
WorkerRecv(w) ==
    /\ wstate[w] = "idle"
    /\ in_chan # <<>>
    /\ wrec' = [wrec EXCEPT ![w] = Head(in_chan)]
    /\ in_chan' = Tail(in_chan)
    /\ wstate' = [wstate EXCEPT ![w] = "got"]
    /\ UNCHANGED <<nonPipeVars, input, nworkers, breakend_index, pre_i, pre_done, out_chan, wcalls,
                   breakend_group_builders, breakend_groups, buffer, next_index,
                   written, post_done, result, exit_code,
                   stdout, stderr>>

(* worker: let calls = self.process_record(rec_info, &mut sample)?; *)
WorkerProcess(w) ==
    /\ wstate[w] = "got"
    /\ LET r == process_record(wrec[w], breakend_group_builders, breakend_groups) IN
        /\ breakend_group_builders' = r.builders
        /\ breakend_groups' = r.groups
        /\ IF r.res = "err"
           THEN /\ wstate' = [wstate EXCEPT ![w] = "failed"]
                /\ UNCHANGED wcalls
           ELSE /\ wstate' = [wstate EXCEPT ![w] = "tosend"]
                /\ \E bundle \in (IF wrec[w].variants = <<>>
                                   THEN EmptyBundles(wrec[w]) ELSE {r.bundle}) :
                      wcalls' = [wcalls EXCEPT ![w] = bundle]
    /\ UNCHANGED <<nonPipeVars, input, nworkers, breakend_index, pre_i, pre_done, in_chan, out_chan,
                   wrec, buffer, next_index, written, post_done, result, exit_code,
                   stdout, stderr>>

(* worker: sender.send(calls).unwrap() *)
WorkerSend(w) ==
    /\ wstate[w] = "tosend"
    /\ Len(out_chan) < Capacity
    /\ out_chan' = Append(out_chan, wcalls[w])
    /\ wstate' = [wstate EXCEPT ![w] = "idle"]
    /\ UNCHANGED <<nonPipeVars, input, nworkers, breakend_index, pre_i, pre_done, in_chan, wrec,
                   wcalls, breakend_group_builders, breakend_groups, buffer,
                   next_index, written, post_done, result, exit_code,
                   stdout, stderr>>

(* worker: the receiver is exhausted and disconnected, return Ok(()) *)
WorkerFinish(w) ==
    /\ wstate[w] = "idle"
    /\ in_chan = <<>>
    /\ pre_done
    /\ wstate' = [wstate EXCEPT ![w] = "done"]
    /\ UNCHANGED <<nonPipeVars, input, nworkers, breakend_index, pre_i, pre_done, in_chan, out_chan,
                   wrec, wcalls, breakend_group_builders, breakend_groups, buffer,
                   next_index, written, post_done, result, exit_code,
                   stdout, stderr>>

(* postprocessor closure: write every call of a bundle *)
postprocessor(calls, out) ==
    out \o [j \in 1..Len(calls.calls) |-> [index |-> calls.index, call |-> calls.calls[j]]]

(* the reorder buffer of worker_pool: hand over the buffered bundles that  *)
(* continue the sequence of indexes                                        *)
RECURSIVE Drain(_, _, _)
Drain(buf, next, out) ==
    IF \E b \in buf : b.index = next
    THEN LET b == CHOOSE x \in buf : x.index = next
         IN  Drain(buf \ {b}, next + 1, postprocessor(b, out))
    ELSE [buffer |-> buf, next_index |-> next, written |-> out]

PostRecv ==
    /\ ~post_done
    /\ out_chan # <<>>
    /\ LET d == Drain(buffer \cup {Head(out_chan)}, next_index, written) IN
        /\ buffer' = d.buffer
        /\ next_index' = d.next_index
        /\ written' = d.written
    /\ out_chan' = Tail(out_chan)
    /\ UNCHANGED <<nonPipeVars, input, nworkers, breakend_index, pre_i, pre_done, in_chan, wstate,
                   wrec, wcalls, breakend_group_builders, breakend_groups, post_done,
                   result, exit_code,
                   stdout, stderr>>

PostFinish ==
    /\ ~post_done
    /\ out_chan = <<>>
    /\ AllStopped
    /\ post_done' = TRUE
    /\ UNCHANGED <<nonPipeVars, input, nworkers, breakend_index, pre_i, pre_done, in_chan, out_chan,
                   wstate, wrec, wcalls, breakend_group_builders, breakend_groups,
                   buffer, next_index, written, result, exit_code,
                   stdout, stderr>>

(* worker_pool joins its threads and returns the first error *)
worker_pool_result ==
    IF \E w \in Workers : wstate[w] = "failed" THEN "err" ELSE "ok"

ProcessReturn ==
    /\ result = "running"
    /\ pre_done /\ AllStopped /\ post_done
    /\ result' = worker_pool_result
    /\ UNCHANGED <<nonPipeVars, input, nworkers, breakend_index, pre_i, pre_done, in_chan, out_chan,
                   wstate, wrec, wcalls, breakend_group_builders, breakend_groups,
                   buffer, next_index, written, post_done, exit_code,
                   stdout, stderr>>

main_exit_zero(res) == 0

(* main: exit(match run(opt) { Err(e) => 1, _ => 0 }) *)
main_exit(res) == IF res = "err" THEN 1 ELSE 0

(* the line main prints for the error that run returned *)
ErrorLine == "Error: e"

(* main: println!("Error: {}", e) *)
main_stdout(res) == IF res = "err" THEN <<ErrorLine>> ELSE <<>>

(* main prints nothing with eprintln! *)
main_stderr(res) == <<>>

Main ==
    /\ result # "running"
    /\ exit_code = NoExit
    /\ exit_code' = main_exit(result)
    /\ stdout' = stdout \o main_stdout(result)
    /\ stderr' = stderr \o main_stderr(result)
    /\ UNCHANGED <<nonPipeVars, input, nworkers, breakend_index, pre_i, pre_done, in_chan, out_chan,
                   wstate, wrec, wcalls, breakend_group_builders, breakend_groups,
                   buffer, next_index, written, post_done, result>>

PipeNext ==
    \/ PreSend
    \/ PreSendDisconnected
    \/ PreEof
    \/ \E w \in Workers : WorkerRecv(w)
    \/ \E w \in Workers : WorkerProcess(w)
    \/ \E w \in Workers : WorkerSend(w)
    \/ \E w \in Workers : WorkerFinish(w)
    \/ PostRecv
    \/ PostFinish
    \/ ProcessReturn
    \/ Main

-----------------------------------------------------------------------------
(* Transport of serialized values in an INFO field of integers             *)

MaxBytes == 3
ByteVals == {0, 1, 128, 255}
ByteSeqs == UNION { [1..n -> ByteVals] : n \in 0..MaxBytes }

I32Max == 2147483647

RECURSIVE Concat(_)
Concat(ss) == IF ss = <<>> THEN <<>> ELSE Head(ss) \o Concat(Tail(ss))

(* byteorder: LittleEndian::read_u16, BigEndian::read_u16, write_u16 *)
LittleEndian_read_u16(buf) == buf[1] + 256 * buf[2]
BigEndian_read_u16(buf) == 256 * buf[1] + buf[2]
LittleEndian_write_u16(n) == <<n % 256, n \div 256>>

(* v as u16, for an i32 v *)
AsU16(v) == v % 65536

(* push_values with the pairs of bytes read in the other byte order *)
push_values_big_endian(bytes) ==
    LET padded == IF Len(bytes) % 2 > 0 THEN Append(bytes, 0) ELSE bytes
    IN  [k \in 1..(Len(padded) \div 2) |->
            BigEndian_read_u16(<<padded[2 * k - 1], padded[2 * k]>>)]

(* write_observations::push_values, from the serialized bytes on: pad to   *)
(* an even length, then read each pair of bytes as a u16, widened to i32   *)
push_values(bytes) ==
    LET padded == IF Len(bytes) % 2 > 0 THEN Append(bytes, 0) ELSE bytes
    IN  [k \in 1..(Len(padded) \div 2) |->
            LittleEndian_read_u16(<<padded[2 * k - 1], padded[2 * k]>>)]

(* read_observations::read_values, up to the bytes given to bincode *)
read_values(raw_values) ==
    Concat([k \in 1..Len(raw_values) |-> LittleEndian_write_u16(AsU16(raw_values[k]))])

ValIdle ==
    /\ encoded_values = <<>>
    /\ values_i32 = <<>>
    /\ values_u8 = <<>>
    /\ val_stage = "init"

ValInit ==
    /\ encoded_values \in ByteSeqs
    /\ values_i32 = <<>>
    /\ values_u8 = <<>>
    /\ val_stage = "init"

PushValues ==
    /\ val_stage = "init"
    /\ values_i32' = push_values(encoded_values)
    /\ val_stage' = "pushed"
    /\ UNCHANGED <<nonValVars, encoded_values, values_u8>>

ReadValues ==
    /\ val_stage = "pushed"
    /\ values_u8' = read_values(values_i32)
    /\ val_stage' = "read"
    /\ UNCHANGED <<nonValVars, encoded_values, values_i32>>

ValNext == PushValues \/ ReadValues

-----------------------------------------------------------------------------
(* Observations in a BCF record                                            *)

MaxPileup == 2

(* log-probabilities, in units of 1/64; LnZero is LogProb::ln_zero()       *)
LnZero == -(2^20)
ProbVals == {-300, LnZero}

ProbFields == <<"prob_mapping", "prob_ref", "prob_alt", "prob_missed_allele",
                "prob_sample_alt", "prob_double_overlap", "prob_any_strand">>

Obs(f, v, fwd, rev) ==
    [prob_mapping        |-> IF f = 1 THEN v ELSE 0,
     prob_ref            |-> IF f = 2 THEN v ELSE 0,
     prob_alt            |-> IF f = 3 THEN v ELSE 0,
     prob_missed_allele  |-> IF f = 4 THEN v ELSE 0,
     prob_sample_alt     |-> IF f = 5 THEN v ELSE 0,
     prob_double_overlap |-> IF f = 6 THEN v ELSE 0,
     prob_any_strand     |-> IF f = 7 THEN v ELSE 0,
     forward_strand      |-> fwd,
     reverse_strand      |-> rev]

(* observations with at most one probability below one *)
Observations ==
    { Obs(f, v, fwd, rev) : f \in 1..7, v \in ProbVals \cup {0},
                            fwd \in BOOLEAN, rev \in BOOLEAN }

Pileups == UNION { [1..n -> Observations] : n \in 0..MaxPileup }

(* MiniLogProb: a 16 bit float.  Magnitudes keep their three leading       *)
(* binary digits; NegInfBits is the bit pattern of -inf.                   *)
NegInfBits == 64512

RECURSIVE Quantum(_)
Quantum(m) == IF m < 8 THEN 1 ELSE 2 * Quantum(m \div 2)

MiniLogProb_new(prob) ==
    IF prob = LnZero THEN NegInfBits ELSE ((-prob) \div Quantum(-prob)) * Quantum(-prob)

MiniLogProb_to_logprob(bits) ==
    IF bits = NegInfBits THEN LnZero ELSE -bits

(* bincode: a u64 as 8 little-endian bytes (the values here stay < 2^24) *)
U64LE(n) == <<n % 256, (n \div 256) % 256, (n \div 65536) % 256, 0, 0, 0, 0, 0>>
DecodeU64(bytes, at) == bytes[at] + 256 * bytes[at + 1] + 65536 * bytes[at + 2]

(* bincode::serialize(&Vec<MiniLogProb>): the length, then each value *)
serialize_probs(probs) ==
    U64LE(Len(probs)) \o Concat([k \in 1..Len(probs) |-> LittleEndian_write_u16(probs[k])])

(* bincode::deserialize::<Vec<MiniLogProb>>; trailing bytes are ignored *)
deserialize_probs(bytes) ==
    [k \in 1..DecodeU64(bytes, 1) |->
        LittleEndian_read_u16(<<bytes[8 + 2 * k - 1], bytes[8 + 2 * k]>>)]

(* BitVec<u8>: bit i lives in block i / 8 at position i % 8 *)
RECURSIVE BlockValue(_, _, _)
BlockValue(flags, block, j) ==
    IF j > 7 THEN 0
    ELSE (IF 8 * block + j + 1 <= Len(flags) /\ flags[8 * block + j + 1] THEN 2^j ELSE 0)
         + BlockValue(flags, block, j + 1)

NBlocks(n) == (n + 7) \div 8

(* bincode::serialize(&BitVec<u8>): the blocks (length first), then the    *)
(* number of bits                                                          *)
serialize_bitvec(flags) ==
    U64LE(NBlocks(Len(flags)))
    \o [b \in 1..NBlocks(Len(flags)) |-> BlockValue(flags, b - 1, 0)]
    \o U64LE(Len(flags))

(* bincode::deserialize::<BitVec<u8>>; trailing bytes are ignored *)
deserialize_bitvec(bytes) ==
    LET nblocks == DecodeU64(bytes, 1)
        len == DecodeU64(bytes, 9 + nblocks)
    IN  [i \in 1..len |-> (bytes[9 + ((i - 1) \div 8)] \div 2^((i - 1) % 8)) % 2 = 1]

Tags == {"PROB_MAPPING", "PROB_REF", "PROB_ALT", "PROB_MISSED_ALLELE", "PROB_SAMPLE_ALT",
         "PROB_DOUBLE_OVERLAP", "PROB_ANY_STRAND", "FORWARD_STRAND", "REVERSE_STRAND"}

EmptyRecord == [t \in Tags |-> <<>>]

Column(observations, field) == [k \in 1..Len(observations) |-> observations[k][field]]
Encoded(observations, field) ==
    [k \in 1..Len(observations) |-> MiniLogProb_new(observations[k][field])]

(* write_observations *)
write_observations(observations) ==
    [t \in Tags |->
        CASE t = "PROB_MAPPING" ->
                push_values(serialize_probs(Encoded(observations, "prob_mapping")))
          [] t = "PROB_REF" ->
                push_values(serialize_probs(Encoded(observations, "prob_ref")))
          [] t = "PROB_ALT" ->
                push_values(serialize_probs(Encoded(observations, "prob_alt")))
          [] t = "PROB_MISSED_ALLELE" ->
                push_values(serialize_probs(Encoded(observations, "prob_missed_allele")))
          [] t = "PROB_SAMPLE_ALT" ->
                push_values(serialize_probs(Encoded(observations, "prob_sample_alt")))
          [] t = "PROB_DOUBLE_OVERLAP" ->
                push_values(serialize_probs(Encoded(observations, "prob_double_overlap")))
          [] t = "PROB_ANY_STRAND" ->
                push_values(serialize_probs(Encoded(observations, "prob_any_strand")))
          [] t = "FORWARD_STRAND" ->
                push_values(serialize_bitvec(Column(observations, "forward_strand")))
          [] t = "REVERSE_STRAND" ->
                push_values(serialize_bitvec(Column(observations, "reverse_strand")))]

InvalidBCFRecord == [ok |-> FALSE, obs |-> <<>>]

ObservationFrom(prob_mapping, prob_ref, prob_alt, prob_missed_allele, prob_sample_alt, prob_double_overlap, prob_any_strand, forward_strand, reverse_strand, i) ==
    [prob_mapping        |-> MiniLogProb_to_logprob(prob_mapping[i]),
     prob_alt            |-> MiniLogProb_to_logprob(prob_alt[i]),
     prob_ref            |-> MiniLogProb_to_logprob(prob_ref[i]),
     prob_missed_allele  |-> MiniLogProb_to_logprob(prob_missed_allele[i]),
     prob_sample_alt     |-> MiniLogProb_to_logprob(prob_sample_alt[i]),
     prob_double_overlap |-> MiniLogProb_to_logprob(prob_double_overlap[i]),
     prob_any_strand     |-> MiniLogProb_to_logprob(prob_any_strand[i]),
     forward_strand      |-> forward_strand[i],
     reverse_strand      |-> reverse_strand[i]]

(* read_observations with PROB_REF and PROB_ALT read into each other's place *)
read_observations_swapped(record) ==
    IF \E t \in Tags : record[t] = <<>>
    THEN InvalidBCFRecord
    ELSE
    LET prob_mapping == deserialize_probs(read_values(record["PROB_MAPPING"]))
        prob_ref == deserialize_probs(read_values(record["PROB_ALT"]))
        prob_alt == deserialize_probs(read_values(record["PROB_REF"]))
        prob_missed_allele == deserialize_probs(read_values(record["PROB_MISSED_ALLELE"]))
        prob_sample_alt == deserialize_probs(read_values(record["PROB_SAMPLE_ALT"]))
        prob_double_overlap == deserialize_probs(read_values(record["PROB_DOUBLE_OVERLAP"]))
        prob_any_strand == deserialize_probs(read_values(record["PROB_ANY_STRAND"]))
        forward_strand == deserialize_bitvec(read_values(record["FORWARD_STRAND"]))
        reverse_strand == deserialize_bitvec(read_values(record["REVERSE_STRAND"]))
    IN  [ok |-> TRUE,
         obs |-> [i \in 1..Len(prob_mapping) |->
                    ObservationFrom(prob_mapping, prob_ref, prob_alt, prob_missed_allele,
                                    prob_sample_alt, prob_double_overlap, prob_any_strand,
                                    forward_strand, reverse_strand, i)]]

(* read_observations: a missing tag is an InvalidBCFRecord error *)
read_observations(record) ==
    IF \E t \in Tags : record[t] = <<>>
    THEN InvalidBCFRecord
    ELSE
    LET prob_mapping == deserialize_probs(read_values(record["PROB_MAPPING"]))
        prob_ref == deserialize_probs(read_values(record["PROB_REF"]))
        prob_alt == deserialize_probs(read_values(record["PROB_ALT"]))
        prob_missed_allele == deserialize_probs(read_values(record["PROB_MISSED_ALLELE"]))
        prob_sample_alt == deserialize_probs(read_values(record["PROB_SAMPLE_ALT"]))
        prob_double_overlap == deserialize_probs(read_values(record["PROB_DOUBLE_OVERLAP"]))
        prob_any_strand == deserialize_probs(read_values(record["PROB_ANY_STRAND"]))
        forward_strand == deserialize_bitvec(read_values(record["FORWARD_STRAND"]))
        reverse_strand == deserialize_bitvec(read_values(record["REVERSE_STRAND"]))
    IN  [ok |-> TRUE,
         obs |-> [i \in 1..Len(prob_mapping) |->
                    ObservationFrom(prob_mapping, prob_ref, prob_alt, prob_missed_allele,
                                    prob_sample_alt, prob_double_overlap, prob_any_strand,
                                    forward_strand, reverse_strand, i)]]

ObsIdle ==
    /\ pileup = <<>>
    /\ bcf_record = EmptyRecord
    /\ decoded = InvalidBCFRecord
    /\ obs_stage = "init"

ObsInit ==
    /\ pileup \in Pileups
    /\ bcf_record = EmptyRecord
    /\ decoded = InvalidBCFRecord
    /\ obs_stage = "init"

WriteObservations ==
    /\ obs_stage = "init"
    /\ bcf_record' = write_observations(pileup)
    /\ obs_stage' = "written"
    /\ UNCHANGED <<nonObsVars, pileup, decoded>>

ReadObservations ==
    /\ obs_stage \in {"init", "written"}
    /\ decoded' = read_observations(bcf_record)
    /\ obs_stage' = "read"
    /\ UNCHANGED <<nonObsVars, pileup, bcf_record>>

ObsNext == WriteObservations \/ ReadObservations

-----------------------------------------------------------------------------
(* The header of a preprocessed BCF                                        *)

MaxContigs == 2

OBSERVATION_FORMAT_VERSION == "2"

(* the build that preprocessed a file may be another one than the reader's; *)
(* NoVersion is a build that writes no version record                       *)
NoVersion == "none"
WriterVersions == {NoVersion, "1", "2", "3"}
Options == {"opts_a", "opts_b", "opts_c"}
NoOptions == "-"

Structured(key) == [kind |-> "structured", key |-> key, value |-> ""]
Generic(key, value) == [kind |-> "generic", key |-> key, value |-> value]

(* ObservationProcessorBuilder::outbcf: the header records, in order; the  *)
(* version record holds the OBSERVATION_FORMAT_VERSION of the writing build *)
outbcf(options, contigs, version) ==
    <<Structured("INFO"), Structured("INFO"), Structured("INFO"), Structured("INFO"),
      Structured("INFO")>>
    \o [k \in 1..contigs |-> Structured("contig")]
    \o [k \in 1..9 |-> Structured("INFO")]
    \o <<Generic("varlociraptor_preprocess_args", options)>>
    \o (IF version = NoVersion THEN <<>>
        ELSE <<Generic("varlociraptor_observation_format_version", version)>>)

(* the header of a candidate BCF that was never preprocessed *)
plain_header(contigs) == [k \in 1..contigs |-> Structured("contig")]

(* read_preprocess_options: the value of the first generic record with key *)
(* varlociraptor_preprocess_args, else Error::InvalidObservations          *)
read_preprocess_options(hdr) ==
    LET hits == { k \in 1..Len(hdr) :
                    hdr[k].kind = "generic" /\ hdr[k].key = "varlociraptor_preprocess_args" }
    IN  IF hits = {}
        THEN [ok |-> FALSE, error |-> "InvalidObservations", options |-> NoOptions]
        ELSE [ok |-> TRUE, error |-> "", options |-> hdr[CHOOSE k \in hits : \A j \in hits : k <= j].value]

NotRead == [ok |-> FALSE, error |-> "", options |-> NoOptions]

HdrIdle ==
    /\ writer_version = NoVersion
    /\ writer_options = NoOptions
    /\ n_contigs = 0
    /\ header = <<>>
    /\ options_result = NotRead
    /\ hdr_stage = "init"

HdrInit ==
    /\ writer_version \in WriterVersions
    /\ writer_options \in Options
    /\ n_contigs \in 0..MaxContigs
    /\ header = <<>>
    /\ options_result = NotRead
    /\ hdr_stage = "init"

(* varlociraptor preprocess writes the output BCF *)
Outbcf ==
    /\ hdr_stage = "init"
    /\ header' = outbcf(writer_options, n_contigs, writer_version)
    /\ hdr_stage' = "written"
    /\ UNCHANGED <<nonHdrVars, writer_version, writer_options, n_contigs, options_result>>

(* the file given as observations is a BCF that was not preprocessed *)
PlainBcf ==
    /\ hdr_stage = "init"
    /\ header' = plain_header(n_contigs)
    /\ hdr_stage' = "written"
    /\ UNCHANGED <<nonHdrVars, writer_version, writer_options, n_contigs, options_result>>

ReadPreprocessOptions ==
    /\ hdr_stage = "written"
    /\ options_result' = read_preprocess_options(header)
    /\ hdr_stage' = "read"
    /\ UNCHANGED <<nonHdrVars, writer_version, writer_options, n_contigs, header>>

HdrNext == Outbcf \/ PlainBcf \/ ReadPreprocessOptions

-----------------------------------------------------------------------------
(* SNV allele likelihoods                                                  *)

MaxBaseQual == 255

(* ASCII codes of A, C, G, a, c *)
Bases == {65, 67, 71, 97, 99}

to_ascii_uppercase(b) == IF b >= 97 /\ b <= 122 THEN b - 32 ELSE b

(* Probabilities as multiples of 1 / ProbOne.  PhredTenth[k + 1] is        *)
(* 10^(-k/10), the miscall probability of PHRED score k.                   *)
ProbOne == 100000
PhredTenth == <<100000, 79433, 63096, 50119, 39811, 31623, 25119, 19953, 15849, 12589>>

RECURSIVE Pow10(_)
Pow10(n) == IF n = 0 THEN 1 ELSE IF n >= 6 THEN 10 * ProbOne ELSE 10 * Pow10(n - 1)

(* prob_read_base_miscall: LogProb::from(PHREDProb::from(base_qual as f64)) *)
prob_read_base_miscall(base_qual) ==
    PhredTenth[(base_qual % 10) + 1] \div Pow10(base_qual \div 10)

(* PROB_CONFUSION = Prob(0.3333) *)
ConfusionNum == 3333
ConfusionDen == 10000

(* prob_read_base comparing the bases as they are, without to_ascii_uppercase *)
prob_read_base_case_sensitive(read_base, ref_base, base_qual) ==
    LET prob_miscall == prob_read_base_miscall(base_qual)
    IN  IF read_base = ref_base
        THEN ProbOne - prob_miscall
        ELSE (prob_miscall * ConfusionNum) \div ConfusionDen

(* prob_read_base *)
prob_read_base(read_base, ref_base, base_qual) ==
    LET prob_miscall == prob_read_base_miscall(base_qual)
    IN  IF to_ascii_uppercase(read_base) = to_ascii_uppercase(ref_base)
        THEN ProbOne - prob_miscall
        ELSE (prob_miscall * ConfusionNum) \div ConfusionDen

(* prob_snv, for a read with a base at the variant's position *)
prob_snv(read_base, ref_base, alt_base, base_qual) ==
    [prob_ref |-> prob_read_base(read_base, ref_base, base_qual),
     prob_alt |-> prob_read_base(read_base, alt_base, base_qual)]

NoSnv == [read_base |-> 65, ref_base |-> 65, alt_base |-> 65, base_qual |-> 0]
NoProbs == [prob_ref |-> 0, prob_alt |-> 0]

SnvIdle ==
    /\ snv_in = NoSnv
    /\ snv_out = NoProbs
    /\ snv_stage = "init"

SnvInit ==
    /\ snv_in \in [read_base : Bases, ref_base : Bases, alt_base : Bases,
                   base_qual : 0..MaxBaseQual]
    /\ snv_out = NoProbs
    /\ snv_stage = "init"

ProbSnv ==
    /\ snv_stage = "init"
    /\ snv_out' = prob_snv(snv_in.read_base, snv_in.ref_base, snv_in.alt_base,
                           snv_in.base_qual)
    /\ snv_stage' = "done"
    /\ UNCHANGED <<nonSnvVars, snv_in>>

SnvNext == ProbSnv

-----------------------------------------------------------------------------
(* GenericPosterior::grid_points                                           *)

MaxSamples == 2
MaxPileupLen == 7
MaxResolution == 9

(* grid_points without the step that makes an even number odd *)
grid_points_unadjusted(pileups, resolutions) ==
    [s \in 1..Min(Len(pileups), Len(resolutions)) |->
        Min(Max(pileups[s] + 1, 5), resolutions[s])]

(* GenericPosterior::grid_points; a pileup is given by its length *)
grid_points(pileups, resolutions) ==
    [s \in 1..Min(Len(pileups), Len(resolutions)) |->
        LET n_obs == pileups[s]
            n == Min(Max(n_obs + 1, 5), resolutions[s])
        IN  IF n % 2 = 0 THEN n + 1 ELSE n]

GridIdle ==
    /\ grid_pileups = <<>>
    /\ grid_resolutions = <<>>
    /\ grid_out = <<>>
    /\ grid_stage = "init"

GridInit ==
    /\ \E n \in 1..MaxSamples :
         /\ grid_pileups \in [1..n -> 0..MaxPileupLen]
         /\ grid_resolutions \in [1..n -> 1..MaxResolution]
    /\ grid_out = <<>>
    /\ grid_stage = "init"

GridPoints ==
    /\ grid_stage = "init"
    /\ grid_out' = grid_points(grid_pileups, grid_resolutions)
    /\ grid_stage' = "done"
    /\ UNCHANGED <<nonGridVars, grid_pileups, grid_resolutions>>

GridNext == GridPoints

-----------------------------------------------------------------------------
(* Bias::is_likely                                                         *)

MaxStrongObs == 11
MaxBiasPileups == 2

(* A pileup, by the number of its strong observations (is_strong_obs) of   *)
(* each kind; the other observations are filtered out of both counts:      *)
(*   strong_bias:  self.prob(obs) = LogProb::ln_one()                      *)
(*   strong_other: self.prob(obs) # LogProb::ln_one()                      *)
BiasPileup(a, b) == [strong_bias |-> a, strong_other |-> b]

(* numbers of strong observations: a few, or about ten and more *)
StrongCounts == (0..2) \cup (9..MaxStrongObs)

BiasPileupSet ==
    { p \in { BiasPileup(a, b) : a \in 0..MaxStrongObs, b \in 0..MaxStrongObs } :
        p.strong_bias + p.strong_other \in StrongCounts }

BiasPileups == UNION { [1..n -> BiasPileupSet] : n \in 0..MaxBiasPileups }

(* if strong_all >= 10 *)
MinStrongAll == 10

(* ratio >= 0.66666 *)
RatioNum == 66666
RatioDen == 100000

(* the closure of Bias::is_likely with strong_all > 10 for strong_all >= 10 *)
pileup_is_likely_above_ten(p) ==
    LET strong_all == p.strong_bias + p.strong_other
    IN  IF strong_all > MinStrongAll
        THEN LET strong_bias_evidence == p.strong_bias
             IN  strong_bias_evidence * RatioDen >= RatioNum * strong_all
        ELSE TRUE

(* the closure given to pileups.iter().any in Bias::is_likely *)
pileup_is_likely(p) ==
    LET strong_all == p.strong_bias + p.strong_other
    IN  IF strong_all >= MinStrongAll
        THEN LET strong_bias_evidence == p.strong_bias
             IN  strong_bias_evidence * RatioDen >= RatioNum * strong_all
        ELSE TRUE

(* Bias::is_likely *)
is_likely(is_default, pileups) ==
    IF is_default
    THEN TRUE
    ELSE \E k \in 1..Len(pileups) : pileup_is_likely(pileups[k])

BiasIdle ==
    /\ bias_is_default = TRUE
    /\ bias_pileups = <<>>
    /\ bias_likely = FALSE
    /\ bias_stage = "init"

BiasInit ==
    /\ bias_is_default \in BOOLEAN
    /\ bias_pileups \in BiasPileups
    /\ bias_likely = FALSE
    /\ bias_stage = "init"

IsLikely ==
    /\ bias_stage = "init"
    /\ bias_likely' = is_likely(bias_is_default, bias_pileups)
    /\ bias_stage' = "done"
    /\ UNCHANGED <<nonBiasVars, bias_is_default, bias_pileups>>

BiasNext == IsLikely

-----------------------------------------------------------------------------
(* Biases::all_artifact_combinations                                       *)

Components == <<"strand_bias", "read_orientation_bias", "read_position_bias", "softclip_bias">>
ComponentSet == { Components[k] : k \in 1..Len(Components) }

(* the values of the four bias enums, in the order of IntoEnumIterator *)
BiasValues ==
    [strand_bias           |-> <<"None", "Forward", "Reverse">>,
     read_orientation_bias |-> <<"None", "F1R2", "F2R1">>,
     read_position_bias    |-> <<"None", "Some">>,
     softclip_bias         |-> <<"None", "Some">>]

(* Bias::is_artifact of an enum value *)
is_artifact(value) == value # "None"

(* strand_biases, read_orientation_biases, ...: every value when the       *)
(* component is considered, else vec![None]                                *)
candidate_values(flags, c) == IF flags[c] THEN BiasValues[c] ELSE <<"None">>

(* the cartesian_product: its k-th tuple (from 0), the last factor running *)
(* fastest                                                                 *)
product_len(flags) ==
    Len(candidate_values(flags, "strand_bias"))
    * Len(candidate_values(flags, "read_orientation_bias"))
    * Len(candidate_values(flags, "read_position_bias"))
    * Len(candidate_values(flags, "softclip_bias"))

product_at(flags, k) ==
    LET sbs  == candidate_values(flags, "strand_bias")
        robs == candidate_values(flags, "read_orientation_bias")
        rpbs == candidate_values(flags, "read_position_bias")
        scbs == candidate_values(flags, "softclip_bias")
    IN  [strand_bias           |-> sbs[(k \div (Len(scbs) * Len(rpbs) * Len(robs))) + 1],
         read_orientation_bias |-> robs[((k \div (Len(scbs) * Len(rpbs))) % Len(robs)) + 1],
         read_position_bias    |-> rpbs[((k \div Len(scbs)) % Len(rpbs)) + 1],
         softclip_bias         |-> scbs[(k % Len(scbs)) + 1]]

n_artifacts(biases) == Cardinality({ c \in ComponentSet : is_artifact(biases[c]) })

(* the filter_map closure keeping every tuple with at least one artifact *)
keep_any_artifact(biases) == n_artifacts(biases) >= 1

(* the filter_map closure: Some(biases) iff the artifacts sum to 1 *)
keep(biases) == n_artifacts(biases) = 1

(* Biases::none() *)
none == [c \in ComponentSet |-> "None"]

(* the length of the iterator's source: empty when no flag is set *)
source_len(flags) ==
    IF \A c \in ComponentSet : ~flags[c] THEN 0 ELSE product_len(flags)

CombosIdle ==
    /\ consider = [c \in ComponentSet |-> FALSE]
    /\ combos_pos = 0
    /\ combos_out = <<>>
    /\ combos_stage = "iterating"

CombosInit ==
    /\ consider \in [ComponentSet -> BOOLEAN]
    /\ combos_pos = 0
    /\ combos_out = <<>>
    /\ combos_stage = "iterating"

(* the iterator consumes the next tuple and yields it or filters it out *)
CombosStep ==
    /\ combos_stage = "iterating"
    /\ combos_pos < source_len(consider)
    /\ LET biases == product_at(consider, combos_pos)
       IN  combos_out' = IF keep(biases) THEN Append(combos_out, biases) ELSE combos_out
    /\ combos_pos' = combos_pos + 1
    /\ UNCHANGED <<nonCombosVars, consider, combos_stage>>

(* the iterator is exhausted *)
CombosEnd ==
    /\ combos_stage = "iterating"
    /\ combos_pos = source_len(consider)
    /\ combos_stage' = "done"
    /\ UNCHANGED <<nonCombosVars, consider, combos_pos, combos_out>>

CombosNext == CombosStep \/ CombosEnd

-----------------------------------------------------------------------------
(* RecordBuffer (model/sample.rs)                                          *)

MaxPos == 3
MaxBamRecords == 2
MaxWindow == 1

Chroms == {"chr1", "chr2"}
UnknownChrom == "chrU"

(* a BAM record: pos, the length of its alignment, and the flag that makes *)
(* it ineligible, if any                                                   *)
BamRecord(pos, len, flag) == [pos |-> pos, len |-> len, flag |-> flag]

BamRecords ==
    { BamRecord(pos, 1, flag) : pos \in 0..MaxPos,
                                flag \in {"ok", "duplicate", "unmapped", "secondary"} }
    \cup { BamRecord(pos, 3, "ok") : pos \in 0..MaxPos }

(* a coordinate-sorted BAM: chr1 varies, chr2 holds one record *)
SortedRecords ==
    { rs \in UNION { [1..n -> BamRecords] : n \in 0..MaxBamRecords } :
        \A j, k \in 1..Len(rs) : j < k => rs[j].pos <= rs[k].pos }

Bams == { [chr1 |-> rs, chr2 |-> <<BamRecord(1, 1, "ok")>>] : rs \in SortedRecords }

(* a record of the BAM, by where it is in the file *)
Rec(tid, idx) == [tid |-> tid, idx |-> idx]
rec_of(r) == rb_bam[r.tid][r.idx]

(* bam::IndexedReader::seek(tid, beg, end): the region from beg to the end *)
(* of the chromosome                                                       *)
seek(tid, beg) == [tid |-> tid, beg |-> beg, next |-> 1]

(* bam::IndexedReader::read: the index of the next record that overlaps    *)
(* the region, 0 at the end of the region                                  *)
next_overlapping(reader) ==
    LET hits == { i \in reader.next..Len(rb_bam[reader.tid]) :
                    rb_bam[reader.tid][i].pos + rb_bam[reader.tid][i].len > reader.beg }
    IN  IF hits = {} THEN 0 ELSE CHOOSE i \in hits : \A j \in hits : i <= j

(* the checks of fill without the one for secondary alignments *)
skipped_ignoring_secondary(record, use_secondary) ==
    record.flag \in {"duplicate", "unmapped"}

(* fill: record.is_duplicate() || record.is_unmapped(), or a secondary     *)
(* alignment when use_secondary is false                                   *)
skipped(record, use_secondary) ==
    \/ record.flag \in {"duplicate", "unmapped"}
    \/ ~use_secondary /\ record.flag = "secondary"

(* fill: extend to the right *)
RECURSIVE extend(_, _, _, _)
extend(reader, inner, log, end) ==
    LET i == next_overlapping(reader) IN
    IF i = 0
    THEN [reader |-> [reader EXCEPT !.next = Len(rb_bam[reader.tid]) + 1],
          inner |-> inner, log |-> log]
    ELSE LET record == rb_bam[reader.tid][i]
             moved == [reader EXCEPT !.next = i + 1]
             read == Append(log, Rec(reader.tid, i))
         IN  IF skipped(record, rb_use_secondary)
             THEN extend(moved, inner, read, end)
             ELSE IF record.pos > end + rb_window
                  THEN [reader |-> moved, inner |-> Append(inner, Rec(reader.tid, i)),
                        log |-> read]
                  ELSE extend(moved, Append(inner, Rec(reader.tid, i)), read, end)

(* fill: remove records too far left *)
RECURSIVE pop_left(_, _)
pop_left(inner, window_start) ==
    IF inner # <<>> /\ rec_of(Head(inner)).pos < window_start
    THEN pop_left(Tail(inner), window_start)
    ELSE inner

window_start_of(start) == Max(start - rb_window - 1, 0)

(* fill: the buffer cannot be continued and the reader has to seek *)
needs_seek(tid, window_start) ==
    \/ rb_inner = <<>>
    \/ rec_of(rb_inner[Len(rb_inner)]).pos < window_start
    \/ rb_inner[Len(rb_inner)].tid # tid

(* RecordBuffer::fill for a chromosome of the BAM *)
fill(tid, start, end) ==
    LET window_start == window_start_of(start) IN
    IF needs_seek(tid, window_start)
    THEN extend(seek(tid, window_start), <<>>, <<>>, end)
    ELSE extend(rb_reader, pop_left(rb_inner, window_start), rb_log, end)

FillCall(chrom, start, end, ok) == [chrom |-> chrom, start |-> start, end |-> end, ok |-> ok]
NoCall == FillCall("-", 0, 0, FALSE)

RbIdle ==
    /\ rb_bam = [chr1 |-> <<>>, chr2 |-> <<>>]
    /\ rb_window = 0
    /\ rb_use_secondary = FALSE
    /\ rb_reader = seek("chr1", 0)
    /\ rb_inner = <<>>
    /\ rb_log = <<>>
    /\ rb_call = NoCall

(* RecordBuffer::new *)
RbInit ==
    /\ rb_bam \in Bams
    /\ rb_window \in 0..MaxWindow
    /\ rb_use_secondary \in BOOLEAN
    /\ rb_reader = seek("chr1", 0)
    /\ rb_inner = <<>>
    /\ rb_log = <<>>
    /\ rb_call = NoCall

Fill ==
    \E tid \in Chroms : \E start \in 0..MaxPos : \E end \in start..MaxPos :
        LET r == fill(tid, start, end) IN
        /\ rb_reader' = r.reader
        /\ rb_inner' = r.inner
        /\ rb_log' = r.log
        /\ rb_call' = FillCall(tid, start, end, TRUE)
        /\ UNCHANGED <<nonRbVars, rb_bam, rb_window, rb_use_secondary>>

(* fill for a chromosome the BAM header does not know: UnknownSequence *)
FillUnknown ==
    /\ rb_call' = FillCall(UnknownChrom, 0, 0, FALSE)
    /\ UNCHANGED <<nonRbVars, rb_bam, rb_window, rb_use_secondary, rb_reader, rb_inner, rb_log>>

RbNext == Fill \/ FillUnknown

-----------------------------------------------------------------------------
(* Emission parameters of insertions and deletions                         *)
(* (variants/insertion.rs, model/evidence/reads.rs)                        *)

MaxRefLen == 4
MaxIndelLen == 2
MaxEmissionWindow == 2

EmissionBases == {65, 67}

SeqsOver(S, lo, hi) == UNION { [1..n -> S] : n \in lo..hi }

RefSeqs == SeqsOver(EmissionBases, 1, MaxRefLen)
InsSeqs == SeqsOver(EmissionBases, 1, MaxIndelLen)

(* usize::saturating_sub *)
saturating_sub(a, b) == IF a >= b THEN a - b ELSE 0

(* seq[k] of a Vec or slice, k counted from 0: panics out of bounds *)
Indexed(seq, k) ==
    IF k >= 0 /\ k < Len(seq) THEN [ok |-> TRUE, base |-> seq[k + 1]]
    ELSE [ok |-> FALSE, base |-> 0]

NoBase == [ok |-> TRUE, base |-> 0]

(* IndelEvidence::prob: the window on the reference *)
ref_window_of(window) == (window * 3) \div 2

(* Insertion::alt_emission_params *)
alt_emission_params(ins_seq, start, ref_seq, ref_window) ==
    [ kind       |-> "Insertion",
      ref_seq    |-> ref_seq,
      ref_offset |-> saturating_sub(start, ref_window),
      ref_end    |-> Min(start + Len(ins_seq) + ref_window, Len(ref_seq)),
      ins_start  |-> start,
      ins_len    |-> Len(ins_seq),
      ins_end    |-> start + Len(ins_seq),
      ins_seq    |-> ins_seq,
      del_start  |-> 0,
      del_len    |-> 0 ]

(* IndelEvidence::prob, Variant::Insertion *)
InsertionEmissionParams(ins_seq, start, ref_seq, window) ==
    [ kind       |-> "IndelInsertion",
      ref_seq    |-> ref_seq,
      ref_offset |-> saturating_sub(start, ref_window_of(window)),
      ref_end    |-> Min(start + Len(ins_seq) + ref_window_of(window), Len(ref_seq)),
      ins_start  |-> start,
      ins_len    |-> Len(ins_seq),
      ins_end    |-> start + Len(ins_seq),
      ins_seq    |-> ins_seq,
      del_start  |-> 0,
      del_len    |-> 0 ]

(* IndelEvidence::prob, Variant::Deletion *)
DeletionEmissionParams(del_len, start, ref_seq, window) ==
    [ kind       |-> "Deletion",
      ref_seq    |-> ref_seq,
      ref_offset |-> saturating_sub(start, ref_window_of(window)),
      ref_end    |-> Min(start + ref_window_of(window), Len(ref_seq)),
      ins_start  |-> 0,
      ins_len    |-> 0,
      ins_end    |-> 0,
      ins_seq    |-> <<>>,
      del_start  |-> start,
      del_len    |-> del_len ]

NoParams == DeletionEmissionParams(0, 0, <<>>, 0)

(* len_x: the default of reads.rs, and the one of variants/insertion.rs *)
len_x(p) ==
    IF p.kind = "Insertion" THEN p.ref_end - p.ref_offset + p.ins_len
    ELSE p.ref_end - p.ref_offset

(* ref_base with the suffix of the reference starting at ins_end *)
insertion_ref_base_from_end(p, i) ==
    LET i_ == i + p.ref_offset IN
    IF i_ <= p.ins_start THEN Indexed(p.ref_seq, i_)
    ELSE IF i_ >= p.ins_end THEN Indexed(p.ref_seq, i_ - p.ins_len)
    ELSE Indexed(p.ins_seq, i_ - (p.ins_start + 1))

(* InsertionEmissionParams::ref_base *)
insertion_ref_base(p, i) ==
    LET i_ == i + p.ref_offset IN
    IF i_ <= p.ins_start THEN Indexed(p.ref_seq, i_)
    ELSE IF i_ > p.ins_end THEN Indexed(p.ref_seq, i_ - p.ins_len)
    ELSE Indexed(p.ins_seq, i_ - (p.ins_start + 1))

(* DeletionEmissionParams::ref_base *)
deletion_ref_base(p, i) ==
    LET i_ == i + p.ref_offset IN
    IF i_ <= p.del_start THEN Indexed(p.ref_seq, i_)
    ELSE Indexed(p.ref_seq, i_ + p.del_len)

EmIdle ==
    /\ em_params = NoParams
    /\ em_i = 0
    /\ em_base = NoBase
    /\ em_stage = "idle"

(* the variant lies on the reference: the anchor of an insertion, and the  *)
(* anchor and the deleted bases of a deletion                              *)
EmInit ==
    /\ \E ref_seq \in RefSeqs : \E start \in 0..(Len(ref_seq) - 1) :
       \E window \in 0..MaxEmissionWindow :
          \/ \E ins_seq \in InsSeqs :
                em_params \in { alt_emission_params(ins_seq, start, ref_seq, window),
                                InsertionEmissionParams(ins_seq, start, ref_seq, window) }
          \/ \E del_len \in 1..MaxIndelLen :
                /\ start + del_len < Len(ref_seq)
                /\ em_params = DeletionEmissionParams(del_len, start, ref_seq, window)
    /\ em_i = 0
    /\ em_base = NoBase
    /\ em_stage = "new"

Emitted(base) == IF base.ok THEN "emitted" ELSE "panicked"

(* the pair HMM asks for the base at a column of the allele *)
InsertionRefBase ==
    /\ em_stage \in {"new", "emitted"}
    /\ em_params.kind \in {"Insertion", "IndelInsertion"}
    /\ \E i \in 0..(len_x(em_params) - 1) :
        /\ em_i' = i
        /\ em_base' = insertion_ref_base(em_params, i)
        /\ em_stage' = Emitted(insertion_ref_base(em_params, i))
    /\ UNCHANGED <<nonEmVars, em_params>>

DeletionRefBase ==
    /\ em_stage \in {"new", "emitted"}
    /\ em_params.kind = "Deletion"
    /\ \E i \in 0..(len_x(em_params) - 1) :
        /\ em_i' = i
        /\ em_base' = deletion_ref_base(em_params, i)
        /\ em_stage' = Emitted(deletion_ref_base(em_params, i))
    /\ UNCHANGED <<nonEmVars, em_params>>

EmNext == InsertionRefBase \/ DeletionRefBase

-----------------------------------------------------------------------------
(* Testcase (testcase.rs): the locus and the candidate of a test case      *)

MaxLocusPos == 2
MaxLocusIdx == 3
MaxCandidates == 2
MaxAlleles == 2

(* no :IDX in the locus *)
NoIdx == -2

(* the bits of u32::MAX and usize::MAX, which 0 - 1 wraps to; only ever    *)
(* compared for equality                                                   *)
AllOnes == -1

(* the captures of TESTCASE_RE: none when the locus does not match *)
LocusCaptures(matches, pos, idx) == [matches |-> matches, pos |-> pos, idx |-> idx]

Loci ==
    { LocusCaptures(FALSE, 0, NoIdx) }
    \cup { LocusCaptures(TRUE, pos, idx) :
             pos \in 0..MaxLocusPos, idx \in {NoIdx} \cup (0..MaxLocusIdx) }

(* utils::collect_variants: per allele of the record, Some(variant) or None *)
AlleleSeqs == UNION { [1..n -> {"some", "none"}] : n \in 1..MaxAlleles }

(* a record of the candidate file, on the chromosome of the locus *)
CandidateRecord(pos, variants) == [pos |-> pos, variants |-> variants]

CandidateRecords ==
    { CandidateRecord(pos, variants) :
        pos \in 0..(MaxLocusPos - 1), variants \in AlleleSeqs }

CandidateFiles == UNION { [1..n -> CandidateRecords] : n \in 0..MaxCandidates }

(* x - 1 on an unsigned integer: panics with overflow checks, else wraps *)
decrement(x, checked) ==
    IF x > 0 THEN [ok |-> TRUE, value |-> x - 1]
    ELSE IF checked THEN [ok |-> FALSE, value |-> 0]
    ELSE [ok |-> TRUE, value |-> AllOnes]

Builder(res, pos, idx) == [res |-> res, pos |-> pos, idx |-> idx]
NoBuilder == Builder("unset", 0, 0)

(* TestcaseBuilder::locus *)
locus(captures, checked) ==
    IF captures.matches
    THEN LET pos == decrement(captures.pos, checked)
             idx == IF captures.idx # NoIdx
                    THEN decrement(captures.idx, checked)
                    ELSE [ok |-> TRUE, value |-> 0]
         IN  IF ~pos.ok \/ ~idx.ok THEN Builder("panic", 0, 0)
             ELSE Builder("ok", pos.value, idx.value)
    ELSE Builder("InvalidLocus", 0, 0)

(* Testcase::variants: the records at the locus, by their place in the file *)
RECURSIVE found_from(_, _)
found_from(k, pos) ==
    IF k > Len(tc_candidates) THEN <<>>
    ELSE IF tc_candidates[k].pos = pos THEN <<k>> \o found_from(k + 1, pos)
    ELSE found_from(k + 1, pos)

(* (variant, record), by the record's place in the file and the allele *)
Candidate(record, allele) == [record |-> record, allele |-> allele]
NoCandidate == Candidate(0, 0)

(* Testcase::write, the loop over the variants of one record: the counter  *)
(* after it and the allele it chose (0 if none)                            *)
RECURSIVE write_variants(_, _, _, _)
write_variants(variants, k, i, idx) ==
    IF k > Len(variants) THEN [i |-> i, allele |-> 0]
    ELSE IF variants[k] = "some" /\ i = idx THEN [i |-> i, allele |-> k]
    ELSE write_variants(variants, k + 1, i + 1, idx)

(* Testcase::write, the loop over the records: the candidate after it *)
RECURSIVE write_records(_, _, _, _, _)
write_records(found, j, i, candidate, idx) ==
    IF j > Len(found) THEN candidate
    ELSE LET r == write_variants(tc_candidates[found[j]].variants, 1, i, idx)
         IN  write_records(found, j + 1, r.i,
                           IF r.allele # 0 THEN Candidate(found[j], r.allele)
                           ELSE candidate,
                           idx)

Written(res, candidate) == [res |-> res, candidate |-> candidate]
NotWritten == Written("unset", NoCandidate)

(* Testcase::write, up to the choice of the candidate *)
write(builder) ==
    LET found == found_from(1, builder.pos) IN
    IF Len(found) = 0 THEN Written("NoCandidateFound", NoCandidate)
    ELSE LET candidate == write_records(found, 1, 0, NoCandidate, builder.idx)
         IN  IF candidate = NoCandidate THEN Written("InvalidIndex", NoCandidate)
             ELSE Written("ok", candidate)

TcIdle ==
    /\ tc_overflow_checks = FALSE
    /\ tc_locus = LocusCaptures(FALSE, 0, NoIdx)
    /\ tc_candidates = <<>>
    /\ tc_builder = NoBuilder
    /\ tc_written = NotWritten
    /\ tc_stage = "idle"

TcInit ==
    /\ tc_overflow_checks \in BOOLEAN
    /\ tc_locus \in Loci
    /\ tc_candidates \in CandidateFiles
    /\ tc_builder = NoBuilder
    /\ tc_written = NotWritten
    /\ tc_stage = "new"

Locus ==
    /\ tc_stage = "new"
    /\ tc_builder' = locus(tc_locus, tc_overflow_checks)
    /\ tc_stage' = IF locus(tc_locus, tc_overflow_checks).res = "ok"
                   THEN "built" ELSE "failed"
    /\ UNCHANGED <<nonTcVars, tc_overflow_checks, tc_locus, tc_candidates, tc_written>>

Write ==
    /\ tc_stage = "built"
    /\ tc_written' = write(tc_builder)
    /\ tc_stage' = "written"
    /\ UNCHANGED <<nonTcVars, tc_overflow_checks, tc_locus, tc_candidates, tc_builder>>

TcNext == Locus \/ Write

-----------------------------------------------------------------------------
(* prob_read_snv (model/sample.rs)                                         *)

MaxCigarOps == 3
MaxOpLen == 2
MaxReadPos == 1
MaxVpos == 6

(* a CIGAR operation: M (Match), = (Equal), X (Diff), I (Ins), D (Del),     *)
(* N (RefSkip), S (SoftClip), H (HardClip)                                 *)
Cigar(op, len) == [op |-> op, len |-> len]

CoreOps ==
    { Cigar("M", l) : l \in 1..MaxOpLen } \cup { Cigar("D", l) : l \in 1..MaxOpLen }
    \cup { Cigar("=", 1), Cigar("X", 1), Cigar("I", 1), Cigar("N", 1) }

(* the operations between the clips: the first is not a deletion or skip *)
CoreCigars ==
    { c \in UNION { [1..n -> CoreOps] : n \in 1..MaxCigarOps } :
        c[1].op \notin {"D", "N"} }

OptionalOp(op) == { <<>>, <<Cigar(op, 1)>> }

(* hard clips at the ends, soft clips next to them *)
Cigars ==
    { h1 \o s1 \o c \o s2 \o h2 :
        h1 \in OptionalOp("H"), s1 \in OptionalOp("S"), c \in CoreCigars,
        s2 \in OptionalOp("S"), h2 \in OptionalOp("H") }

SnvOut(res, qpos) == [res |-> res, qpos |-> qpos]
NoSnvOut == SnvOut("unset", 0)

(* prob_read_snv, the first loop: the index (from 1) of the first          *)
(* operation that refers to qpos = 0; 0 stands for a panic                 *)
RECURSIVE first_query_op(_, _)
first_query_op(cigar, i) ==
    IF i > Len(cigar) THEN 1
    ELSE IF cigar[i].op \in {"M", "X", "=", "I", "S"} THEN i
    ELSE IF cigar[i].op \in {"D", "N"} THEN 0
    ELSE first_query_op(cigar, i + 1)

(* prob_read_snv, the loop `while rpos <= vpos' *)
RECURSIVE snv_walk(_, _, _, _, _)
snv_walk(cigar, c, rpos, qpos, vpos) ==
    IF rpos > vpos THEN SnvOut("none", 0)
    ELSE IF c > Len(cigar) THEN SnvOut("panic", 0)
    ELSE LET op == cigar[c].op
             l == cigar[c].len
         IN  IF op \in {"M", "X", "="} /\ rpos <= vpos /\ rpos + l > vpos
             THEN SnvOut("some", qpos + (vpos - rpos))
             ELSE IF op \in {"M", "X", "="}
             THEN snv_walk(cigar, c + 1, rpos + l, qpos + l, vpos)
             ELSE IF op \in {"S", "I"}
             THEN snv_walk(cigar, c + 1, rpos, qpos + l, vpos)
             ELSE IF op \in {"N", "D"}
             THEN snv_walk(cigar, c + 1, rpos + l, qpos, vpos)
             ELSE SnvOut("none", 0)

(* prob_read_snv: Some with the query offset of the base it evaluates *)
prob_read_snv(pos, cigar, vpos) ==
    LET c == first_query_op(cigar, 1)
    IN  IF c = 0 THEN SnvOut("panic", 0)
        ELSE snv_walk(cigar, c, pos, 0, vpos)

RsIdle ==
    /\ rs_pos = 0
    /\ rs_cigar = <<>>
    /\ rs_vpos = 0
    /\ rs_out = NoSnvOut
    /\ rs_stage = "idle"

RsInit ==
    /\ rs_pos \in 0..MaxReadPos
    /\ rs_cigar \in Cigars
    /\ rs_vpos \in 0..MaxVpos
    /\ rs_out = NoSnvOut
    /\ rs_stage = "new"

ProbReadSnv ==
    /\ rs_stage = "new"
    /\ rs_out' = prob_read_snv(rs_pos, rs_cigar, rs_vpos)
    /\ rs_stage' = "done"
    /\ UNCHANGED <<nonRsVars, rs_pos, rs_cigar, rs_vpos>>

RsNext == ProbReadSnv

-----------------------------------------------------------------------------
(* adjust_mapq (model/sample.rs).  A LogProb is kept as the probability it *)
(* stands for, an exact fraction: + of LogProbs is the product, - the      *)
(* quotient, ln_add_exp the sum and ln_one_minus_exp the complement.       *)

MaxMapqObs == 3

RECURSIVE Gcd(_, _)
Gcd(a, b) == IF b = 0 THEN a ELSE Gcd(b, a % b)

Frac(n, d) == [n |-> n \div Gcd(n, d), d |-> d \div Gcd(n, d)]

ln_zero == Frac(0, 1)
ln_one == Frac(1, 1)
Half == Frac(1, 2)

LogMul(a, b) == Frac(a.n * b.n, a.d * b.d)
LogDiv(a, b) == Frac(a.n * b.d, a.d * b.n)
ln_add_exp(a, b) == Frac(a.n * b.d + b.n * a.d, a.d * b.d)
ln_one_minus_exp(a) == Frac(a.d - a.n, a.d)
LogGt(a, b) == a.n * b.d > b.n * a.d

(* model::observation::Observation *)
MapqObservation(prob_mapping, prob_alt, prob_ref, evidence) ==
    [prob_mapping |-> prob_mapping, prob_alt |-> prob_alt, prob_ref |-> prob_ref,
     prob_mismapped |-> ln_one, evidence |-> evidence]

AlleleProbs == { <<ln_one, ln_zero>>, <<ln_zero, ln_one>>, <<Half, Half>>, <<ln_zero, ln_zero>> }

MapqObservations ==
    { MapqObservation(m, a[1], a[2], e) :
        m \in {Half, ln_one}, a \in AlleleProbs, e \in {"Alignment", "InsertSize"} }

is_alignment_evidence(obs) == obs.evidence = "Alignment"

(* adjust_mapq: the closure given to filter_map, for an insert size *)
prob_not_alt(obs) ==
    IF obs.prob_alt = ln_zero /\ obs.prob_ref = ln_zero
    THEN ln_one
    ELSE LET prob_alt == LogDiv(obs.prob_alt, ln_add_exp(obs.prob_alt, obs.prob_ref))
         IN  ln_one_minus_exp(LogMul(obs.prob_mapping, prob_alt))

(* adjust_mapq: filter_map(..).fold(LogProb::ln_one(), |s, e| s + e) *)
RECURSIVE prob_no_alt_fragment(_)
prob_no_alt_fragment(observations) ==
    IF observations = <<>> THEN ln_one
    ELSE LET obs == observations[Len(observations)]
             s == prob_no_alt_fragment(SubSeq(observations, 1, Len(observations) - 1))
         IN  IF ~is_alignment_evidence(obs) THEN LogMul(s, prob_not_alt(obs)) ELSE s

(* adjust_mapq adjusting the alignments with prob_alt >= prob_ref *)
adjust_mapq_alt_not_below_ref(observations) ==
    LET prob_no_artifact == ln_one_minus_exp(prob_no_alt_fragment(observations))
    IN  [k \in 1..Len(observations) |->
            IF is_alignment_evidence(observations[k])
               /\ ~LogGt(observations[k].prob_ref, observations[k].prob_alt)
            THEN [observations[k] EXCEPT
                     !.prob_mapping = LogMul(prob_no_artifact, observations[k].prob_mapping)]
            ELSE observations[k]]

(* adjust_mapq *)
adjust_mapq(observations) ==
    LET prob_no_artifact == ln_one_minus_exp(prob_no_alt_fragment(observations))
    IN  [k \in 1..Len(observations) |->
            IF is_alignment_evidence(observations[k])
               /\ LogGt(observations[k].prob_alt, observations[k].prob_ref)
            THEN [observations[k] EXCEPT
                     !.prob_mapping = LogMul(prob_no_artifact, observations[k].prob_mapping)]
            ELSE observations[k]]

MqIdle ==
    /\ mq_observations = <<>>
    /\ mq_before = <<>>
    /\ mq_stage = "idle"

MqInit ==
    /\ mq_observations \in UNION { [1..n -> MapqObservations] : n \in 0..MaxMapqObs }
    /\ mq_before = mq_observations
    /\ mq_stage = "new"

AdjustMapq ==
    /\ mq_stage = "new"
    /\ mq_observations' = adjust_mapq(mq_observations)
    /\ mq_stage' = "adjusted"
    /\ UNCHANGED <<nonMqVars, mq_before>>

MqNext == AdjustMapq

-----------------------------------------------------------------------------
(* n_fragment_positions (model/evidence/fragments.rs).  The integers of    *)
(* this section are u32 and i32 at their width of 32 bits; a number x is   *)
(* kept as the pair (q, r) with x = q * 2^16 + r and 0 <= r < 2^16.        *)

Radix == 2 ^ 16
HalfRadix == 2 ^ 15

Wide(q, r) == [q |-> q + (r \div Radix), r |-> r % Radix]

WideOf(x) == Wide(0, x)
WideAdd(a, b) == Wide(a.q + b.q, a.r + b.r)
WideSub(a, b) == Wide(a.q - b.q, a.r - b.r)
WideLe(a, b) == a.q < b.q \/ (a.q = b.q /\ a.r <= b.r)
WideMax(a, b) == IF WideLe(a, b) THEN b ELSE a
WideMin(a, b) == IF WideLe(a, b) THEN a ELSE b

(* some u32 values: small ones, and 2^31 - 1, 2^31 and 2^32 - 1 *)
U32Values ==
    { WideOf(x) : x \in 0..4 }
    \cup { Wide(HalfRadix - 1, Radix - 1), Wide(HalfRadix, 0), Wide(Radix - 1, Radix - 1) }

InI32(a) == a.q >= -HalfRadix /\ a.q < HalfRadix

(* x as i32, for a u32 x *)
as_i32(a) == IF a.q >= HalfRadix THEN Wide(a.q - Radix, a.r) ELSE a

(* two's complement wrap of an integer into i32 *)
wrap_i32(a) == Wide(((a.q + HalfRadix) % Radix) - HalfRadix, a.r)

(* x as u32, for an i32 x *)
as_u32(a) == Wide(a.q % Radix, a.r)

I32(ok, value) == [ok |-> ok, value |-> value]

(* an i32 result: in range, else a panic with overflow checks, else wrapped *)
i32_checked(x, checked) ==
    IF ~x.ok THEN x
    ELSE IF InI32(x.value) THEN x
    ELSE IF checked THEN I32(FALSE, WideOf(0))
    ELSE I32(TRUE, wrap_i32(x.value))

i32_sub(a, b, checked) ==
    IF ~a.ok THEN a ELSE i32_checked(I32(TRUE, WideSub(a.value, b)), checked)

i32_add(a, b, checked) ==
    IF ~a.ok THEN a ELSE i32_checked(I32(TRUE, WideAdd(a.value, b)), checked)

FragmentArgs(insert_size, left_read_len, right_read_len, window) ==
    [insert_size |-> insert_size, left_read_len |-> left_read_len,
     right_read_len |-> right_read_len, window |-> window]

(* n_fragment_positions *)
n_fragment_positions(a, checked) ==
    LET enclose == i32_sub(i32_sub(I32(TRUE, as_i32(a.insert_size)),
                                   as_i32(a.left_read_len), checked),
                           as_i32(a.right_read_len), checked)
        shorter == i32_add(i32_sub(I32(TRUE, as_i32(a.window)),
                                   as_i32(a.insert_size), checked),
                           WideOf(1), checked)
    IN  IF ~enclose.ok \/ ~shorter.ok THEN I32(FALSE, WideOf(0))
        ELSE I32(TRUE, as_u32(WideMin(WideMax(enclose.value, WideOf(0)),
                                      WideMax(shorter.value, WideOf(0)))))

NfIdle ==
    /\ nf_overflow_checks = FALSE
    /\ nf_args = FragmentArgs(WideOf(0), WideOf(0), WideOf(0), WideOf(0))
    /\ nf_out = I32(TRUE, WideOf(0))
    /\ nf_stage = "idle"

NfInit ==
    /\ nf_overflow_checks \in BOOLEAN
    /\ nf_args \in { FragmentArgs(i, l, r, w) :
                        i \in U32Values, l \in U32Values, r \in U32Values, w \in U32Values }
    /\ nf_out = I32(TRUE, WideOf(0))
    /\ nf_stage = "new"

NFragmentPositions ==
    /\ nf_stage = "new"
    /\ nf_out' = n_fragment_positions(nf_args, nf_overflow_checks)
    /\ nf_stage' = "done"
    /\ UNCHANGED <<nonNfVars, nf_overflow_checks, nf_args>>

NfNext == NFragmentPositions

-----------------------------------------------------------------------------
(* GenericPosterior::compute and ::density (model/modes/generic.rs).       *)
(* Samples have the indices 0 .. MaxVafSamples - 1.  Allele frequencies    *)
(* are counted in quarters: 0 is 0.0, 2 is 0.5 and 4 is 1.0.               *)

MaxVafSamples == 2
MaxChildren == 2
MaxRoots == 2
PosteriorPileupLen == 2

VafSampleIdx == 0..(MaxVafSamples - 1)
PosteriorStrandBiases == {"None", "Forward"}
PosteriorResolutions == {3, 5}

(* grammar::VAFSpectrum: a set of allele frequencies, or a range given by  *)
(* its observable_min and observable_max                                   *)
VAFSet(vafs) == [kind |-> "Set", vafs |-> vafs, min |-> 0, max |-> 0]
VAFRange(min, max) == [kind |-> "Range", vafs |-> {}, min |-> min, max |-> max]

VAFSpectra == {VAFSet({2}), VAFSet({0, 4}), VAFRange(0, 4)}

(* grammar::vaftree::Node *)
Node(sample, vafs, children) == [sample |-> sample, vafs |-> vafs, children |-> children]
is_leaf(node) == Len(node.children) = 0
is_branching(node) == Len(node.children) > 1

(* The nodes over the samples not yet given an allele frequency: every     *)
(* path from a root to a leaf defines the allele frequency of all samples. *)
RECURSIVE Nodes(_)
Nodes(remaining) ==
    UNION { { Node(s, v, ch) :
                v \in VAFSpectra,
                ch \in IF remaining \ {s} = {} THEN {<<>>}
                       ELSE SeqsOver(Nodes(remaining \ {s}), 1, MaxChildren) } :
            s \in remaining }

VAFTrees == SeqsOver(Nodes(VafSampleIdx), 1, MaxRoots)

(* likelihood::Event *)
LikelihoodEvent(allele_freq, strand_bias) == [allele_freq |-> allele_freq, strand_bias |-> strand_bias]
NoLikelihoodEvent == LikelihoodEvent(-1, "-")

(* VecMap::with_capacity(pileups.len()): no key has a value *)
EmptyBaseEvents == [s \in VafSampleIdx |-> NoLikelihoodEvent]

(* VecMap::values: the values of the present keys, in the order of the keys *)
RECURSIVE values_from(_, _)
values_from(base_events, key) ==
    IF key \notin DOMAIN base_events THEN <<>>
    ELSE (IF base_events[key] = NoLikelihoodEvent THEN <<>> ELSE <<base_events[key]>>)
         \o values_from(base_events, key + 1)

values(base_events) == values_from(base_events, 0)

(* BTreeSet::iter: ascending *)
RECURSIVE ascending(_)
ascending(S) ==
    IF S = {} THEN <<>>
    ELSE LET m == CHOOSE x \in S : \A y \in S : x <= y
         IN  <<m>> \o ascending(S \ {m})

(* the allele frequencies at which ln_simpsons_integrate_exp evaluates the *)
(* density: n grid points from min to max                                  *)
grid_vafs(min, max, n) == [i \in 1..n |-> min + ((i - 1) * (max - min)) \div (n - 1)]

push_base_event(allele_freq, base_events, sample, strand_bias) ==
    [base_events EXCEPT ![sample] = LikelihoodEvent(allele_freq, strand_bias)]

(* after_clone for a callee that was given the caller's map itself *)
after_clone_shared(base_events, mutated) == mutated

(* What the caller's base_events are after a callee that was given         *)
(* &mut base_events.clone(): what they were before                         *)
after_clone(base_events, mutated) == base_events

(* What an exploration did: the base_events every subdensity evaluation    *)
(* saw, the event vectors passed to joint_prob, and the base_events after  *)
DensityTrace(visits, calls, base_events) == [visits |-> visits, calls |-> calls, base_events |-> base_events]

RECURSIVE density(_, _, _, _)
RECURSIVE subdensity(_, _, _, _)
RECURSIVE density_children(_, _, _, _, _)
RECURSIVE density_vafs(_, _, _, _, _, _)

(* the closure subdensity of density *)
subdensity(vaf_tree_node, base_events, sample_grid_points, strand_bias) ==
    LET visit == [sample |-> vaf_tree_node.sample, base_events |-> base_events]
    IN  IF is_leaf(vaf_tree_node)
        THEN DensityTrace(<<visit>>, <<values(base_events)>>, base_events)
        ELSE LET sub == IF is_branching(vaf_tree_node)
                        THEN density_children(vaf_tree_node.children, 1, base_events,
                                              sample_grid_points, strand_bias)
                        ELSE density(vaf_tree_node.children[1], base_events,
                                     sample_grid_points, strand_bias)
             IN  DensityTrace(<<visit>> \o sub.visits, sub.calls, sub.base_events)

(* the children of a branching node, from the i-th on *)
density_children(children, i, base_events, sample_grid_points, strand_bias) ==
    IF i > Len(children) THEN DensityTrace(<<>>, <<>>, base_events)
    ELSE LET child == density(children[i], base_events, sample_grid_points, strand_bias)
             rest == density_children(children, i + 1,
                                      after_clone(base_events, child.base_events),
                                      sample_grid_points, strand_bias)
         IN  DensityTrace(child.visits \o rest.visits, child.calls \o rest.calls,
                          rest.base_events)

(* the allele frequencies of a set of several or of a range, from the i-th on *)
density_vafs(vaf_tree_node, vafs, i, base_events, sample_grid_points, strand_bias) ==
    IF i > Len(vafs) THEN DensityTrace(<<>>, <<>>, base_events)
    ELSE LET pushed == push_base_event(vafs[i], base_events, vaf_tree_node.sample,
                                       strand_bias)
             one == subdensity(vaf_tree_node, pushed, sample_grid_points, strand_bias)
             rest == density_vafs(vaf_tree_node, vafs, i + 1,
                                  after_clone(base_events, one.base_events),
                                  sample_grid_points, strand_bias)
         IN  DensityTrace(one.visits \o rest.visits, one.calls \o rest.calls,
                          rest.base_events)

(* GenericPosterior::density, by what it does to base_events and what it   *)
(* passes to joint_prob                                                    *)
density(vaf_tree_node, base_events, sample_grid_points, strand_bias) ==
    LET sample == vaf_tree_node.sample
        spectrum == vaf_tree_node.vafs
    IN  IF spectrum.kind = "Set"
        THEN IF Cardinality(spectrum.vafs) = 1
             THEN LET pushed == push_base_event(CHOOSE vaf \in spectrum.vafs : TRUE,
                                                base_events, sample, strand_bias)
                      sub == subdensity(vaf_tree_node, pushed, sample_grid_points,
                                        strand_bias)
                  IN  sub
             ELSE density_vafs(vaf_tree_node, ascending(spectrum.vafs), 1, base_events,
                               sample_grid_points, strand_bias)
        ELSE density_vafs(vaf_tree_node,
                          grid_vafs(spectrum.min, spectrum.max,
                                    sample_grid_points[sample + 1]),
                          1, base_events, sample_grid_points, strand_bias)

PosteriorEvent(vafs, strand_bias) == [vafs |-> vafs, strand_bias |-> strand_bias]

GpIdle ==
    /\ gp_event = PosteriorEvent(<<>>, "None")
    /\ gp_resolutions = <<>>
    /\ gp_pileups = <<>>
    /\ gp_i = 0
    /\ gp_out = <<>>
    /\ gp_stage = "idle"

GpInit ==
    /\ gp_event \in { PosteriorEvent(t, b) : t \in VAFTrees, b \in PosteriorStrandBiases }
    /\ gp_resolutions \in [1..MaxVafSamples -> PosteriorResolutions]
    /\ gp_pileups = [s \in 1..MaxVafSamples |-> PosteriorPileupLen]
    /\ gp_i = 0
    /\ gp_out = <<>>
    /\ gp_stage = "new"

(* GenericPosterior::compute, one root node of the VAF tree at a time *)
ComputeNode ==
    /\ gp_stage = "new"
    /\ gp_i < Len(gp_event.vafs)
    /\ LET grid_points_ == grid_points(gp_pileups, gp_resolutions)
           explored == density(gp_event.vafs[gp_i + 1], EmptyBaseEvents, grid_points_,
                               gp_event.strand_bias)
       IN  gp_out' = Append(gp_out, explored)
    /\ gp_i' = gp_i + 1
    /\ UNCHANGED <<nonGpVars, gp_event, gp_resolutions, gp_pileups, gp_stage>>

(* GenericPosterior::compute: ln_sum_exp over the root nodes *)
ComputeDone ==
    /\ gp_stage = "new"
    /\ gp_i = Len(gp_event.vafs)
    /\ gp_stage' = "done"
    /\ UNCHANGED <<nonGpVars, gp_event, gp_resolutions, gp_pileups, gp_i, gp_out>>

GpNext == ComputeNode \/ ComputeDone

-----------------------------------------------------------------------------
(* GenericLikelihood::compute (model/modes/generic.rs).  Samples have the  *)
(* indices 0 .. n - 1; a sequence holds sample i at position i + 1.        *)

MaxLikelihoodSamples == 3
MaxComputeCalls == 3
LikelihoodVafs == {0, 4}

NoContamination == -1

(* SampleModel *)
Normal == [kind |-> "Normal", by |-> NoContamination]
Contaminated(by) == [kind |-> "Contaminated", by |-> by]

(* GenericLikelihood::new; a contamination is given by its `by` (cli.rs:   *)
(* the index of a sample of the scenario)                                  *)
GenericLikelihood_new(contaminations) ==
    [i \in 1..Len(contaminations) |->
        IF contaminations[i] # NoContamination THEN Contaminated(contaminations[i])
        ELSE Normal]

NoCacheEntry == "-"

(* CacheEntry::new that never makes a ContaminatedSample entry *)
CacheEntry_new_single(contaminated) == "SingleSample"

(* CacheEntry::new *)
CacheEntry_new(contaminated) ==
    IF contaminated THEN "ContaminatedSample" ELSE "SingleSample"

(* cache.entry(sample).or_insert_with(|| CacheEntry::new(contaminated)) *)
or_insert_with(cache, sample, contaminated) ==
    IF cache[sample] = NoCacheEntry
    THEN [cache EXCEPT ![sample] = CacheEntry_new(contaminated)]
    ELSE cache

LikelihoodOut(panic, terms) == [panic |-> panic, terms |-> terms]

(* the loop of GenericLikelihood::compute from sample index `sample` on:   *)
(* the cache and the terms after it, or the panic that ended it            *)
RECURSIVE compute_from(_, _, _, _, _)
compute_from(inner, events, sample, cache, terms) ==
    IF sample >= Len(events) \/ sample >= Len(inner)
    THEN [cache |-> cache, out |-> LikelihoodOut("none", terms)]
    ELSE LET model == inner[sample + 1]
             event == events[sample + 1]
             entered == or_insert_with(cache, sample, model.kind = "Contaminated")
         IN  IF model.kind = "Contaminated"
             THEN IF entered[sample] # "ContaminatedSample"
                  THEN [cache |-> entered, out |-> LikelihoodOut("unreachable", terms)]
                  ELSE IF model.by >= Len(events)
                  THEN [cache |-> entered, out |-> LikelihoodOut("index out of bounds", terms)]
                  ELSE compute_from(inner, events, sample + 1, entered,
                                    Append(terms, [primary |-> event,
                                                   secondary |-> events[model.by + 1]]))
             ELSE IF entered[sample] # "SingleSample"
                  THEN [cache |-> entered, out |-> LikelihoodOut("unreachable", terms)]
                  ELSE compute_from(inner, events, sample + 1, entered,
                                    Append(terms, [primary |-> event, secondary |-> event]))

LkIdle ==
    /\ lk_inner = <<>>
    /\ lk_cache = <<>>
    /\ lk_events = <<>>
    /\ lk_out = LikelihoodOut("none", <<>>)
    /\ lk_calls = 0
    /\ lk_stage = "idle"

(* a GenericLikelihood over n samples and an empty Cache *)
LkInit ==
    /\ \E n \in 1..MaxLikelihoodSamples :
         /\ lk_inner \in { GenericLikelihood_new(c) :
                              c \in [1..n -> {NoContamination} \cup 0..(n - 1)] }
         /\ lk_cache = [i \in 0..(n - 1) |-> NoCacheEntry]
    /\ lk_events = <<>>
    /\ lk_out = LikelihoodOut("none", <<>>)
    /\ lk_calls = 0
    /\ lk_stage = "run"

(* GenericLikelihood::compute(events, pileups, cache) *)
LikelihoodCompute ==
    /\ lk_stage = "run"
    /\ lk_calls < MaxComputeCalls
    /\ lk_out.panic = "none"
    /\ \E events \in [1..Len(lk_inner) -> LikelihoodVafs] :
         LET done == compute_from(lk_inner, events, 0, lk_cache, <<>>)
         IN  /\ lk_events' = events
             /\ lk_cache' = done.cache
             /\ lk_out' = done.out
    /\ lk_calls' = lk_calls + 1
    /\ UNCHANGED <<nonLkVars, lk_inner, lk_stage>>

LkNext == LikelihoodCompute

-----------------------------------------------------------------------------
(* Sample::extract_observations (model/sample.rs): which records become    *)
(* read observations and which fragment observations.  The probabilities   *)
(* of an observation are left out; the mapq kept in `pairs` is given by    *)
(* the index of the record it was taken from.                              *)

MaxBufferedRecords == 3
MaxRecordPos == 3
MaxRecordLen == 2
VariantStart == 1
VariantLength == 2

SampleVariant(kind, start, length) == [kind |-> kind, start |-> start, length |-> length]
SampleVariants == { SampleVariant(k, VariantStart, VariantLength) : k \in {"Deletion", "Insertion", "SNV"} }

(* Variant::has_fragment_evidence *)
has_fragment_evidence(variant) == variant.kind \in {"Deletion", "Insertion"}

(* a bam::Record: qname, pos, end_pos, mpos, and whether it is the first   *)
(* or the last in its template                                             *)
BufferedRecord(qname, pos, end_pos, mpos, in_template) == [qname |-> qname, pos |-> pos, end_pos |-> end_pos, mpos |-> mpos, in_template |-> in_template]

BufferedRecordSet ==
    { BufferedRecord(q, p, p + l, m, t) :
        q \in {"a", "b"}, p \in 0..MaxRecordPos, l \in 1..MaxRecordLen,
        m \in {0, MaxRecordPos - 1}, t \in BOOLEAN }

(* record_buffer holds the records in the order of the BAM: by position *)
BufferedRecordSeqs ==
    { rs \in SeqsOver(BufferedRecordSet, 0, MaxBufferedRecords) :
        \A i \in 1..(Len(rs) - 1) : rs[i].pos <= rs[i + 1].pos }

(* (end, varpos) of the variant *)
variant_end(variant) ==
    IF variant.kind = "Deletion" THEN variant.start + variant.length
    ELSE IF variant.kind = "Insertion" THEN variant.start + variant.length
    ELSE variant.start + 1

varpos_of(variant) ==
    IF variant.kind = "Deletion" THEN variant.start + (variant.length \div 2)
    ELSE variant.start

(* the condition under which a record is given to read_observation *)
overlaps_variant(record, variant) ==
    \/ (record.pos < variant.start /\ record.end_pos > variant.start)
    \/ (record.pos < variant_end(variant) /\ record.end_pos > variant_end(variant))

NoMate == 0
SampleObservation(kind, record, mate) == [kind |-> kind, record |-> record, mate |-> mate]

Extracted(pairs, observations) == [pairs |-> pairs, observations |-> observations]

(* the loop over the records, from the i-th on; read_observation is taken  *)
(* to return an observation                                                *)
RECURSIVE extract_from(_, _, _, _, _, _)
extract_from(records, i, variant, use_fragment_evidence, pairs, observations) ==
    IF i > Len(records) THEN Extracted(pairs, observations)
    ELSE LET record == records[i]
             varpos == varpos_of(variant)
         IN  IF overlaps_variant(record, variant)
             THEN extract_from(records, i + 1, variant, use_fragment_evidence, pairs,
                               Append(observations, SampleObservation("read", i, NoMate)))
             ELSE IF has_fragment_evidence(variant) /\ use_fragment_evidence
                     /\ record.in_template
             THEN IF record.end_pos <= varpos
                  THEN IF record.mpos >= varpos
                       THEN extract_from(records, i + 1, variant, use_fragment_evidence,
                                         [pairs EXCEPT ![record.qname] = i], observations)
                       ELSE extract_from(records, i + 1, variant, use_fragment_evidence,
                                         pairs, observations)
                  ELSE IF pairs[record.qname] # NoMate
                  THEN extract_from(records, i + 1, variant, use_fragment_evidence, pairs,
                                    Append(observations,
                                           SampleObservation("fragment", i,
                                                             pairs[record.qname])))
                  ELSE extract_from(records, i + 1, variant, use_fragment_evidence,
                                    pairs, observations)
             ELSE extract_from(records, i + 1, variant, use_fragment_evidence,
                               pairs, observations)

NoPairs == [q \in {"a", "b"} |-> NoMate]

(* Sample::extract_observations; adjust_mapq changes no observation's kind *)
extract_observations(records, variant, use_fragment_evidence) ==
    extract_from(records, 1, variant, use_fragment_evidence, NoPairs, <<>>)

XoIdle ==
    /\ xo_use_fragment_evidence = FALSE
    /\ xo_variant = SampleVariant("SNV", 0, 0)
    /\ xo_records = <<>>
    /\ xo_pairs = NoPairs
    /\ xo_observations = <<>>
    /\ xo_stage = "idle"

XoInit ==
    /\ xo_use_fragment_evidence \in BOOLEAN
    /\ xo_variant \in SampleVariants
    /\ xo_records \in BufferedRecordSeqs
    /\ xo_pairs = NoPairs
    /\ xo_observations = <<>>
    /\ xo_stage = "new"

ExtractObservations ==
    /\ xo_stage = "new"
    /\ LET extracted == extract_observations(xo_records, xo_variant,
                                             xo_use_fragment_evidence)
       IN  /\ xo_pairs' = extracted.pairs
           /\ xo_observations' = extracted.observations
    /\ xo_stage' = "done"
    /\ UNCHANGED <<nonXoVars, xo_use_fragment_evidence, xo_variant, xo_records>>

XoNext == ExtractObservations

-----------------------------------------------------------------------------
(* prob_read_indel (model/sample.rs): the shifts p it evaluates and the    *)
(* variant length l it uses at each.  The reference is taken to be long    *)
(* enough for every base that is looked up.                                *)

MaxIndelReadPos == 4
MaxIndelStart == 4
MaxIndelCigarOps == 3
MaxIndelOpLen == 2
MaxVariantLen == 2

IndelOps == { Cigar(op, l) : op \in {"M", "I", "D", "N"}, l \in 1..MaxIndelOpLen }

(* CIGARs that begin and end with a match *)
IndelCigars ==
    { c \in SeqsOver(IndelOps, 1, MaxIndelCigarOps) : c[1].op = "M" /\ c[Len(c)].op = "M" }

RECURSIVE cigar_sum(_, _)
cigar_sum(cigar, ops) ==
    IF cigar = <<>> THEN 0
    ELSE (IF Head(cigar).op \in ops THEN Head(cigar).len ELSE 0) + cigar_sum(Tail(cigar), ops)

(* read_seq.len() *)
seq_len(cigar) == cigar_sum(cigar, {"M", "I"})

(* record.end_pos(&cigar) *)
end_pos(pos, cigar) == pos + cigar_sum(cigar, {"M", "D", "N"})

total_indel_len(cigar) == cigar_sum(cigar, {"I", "D"})

IndelRead(pos, cigar) == [pos |-> pos, cigar |-> cigar]

(* the reads that extract_observations gives to read_observation *)
passed_to_read_observation(read, variant) ==
    LET end == variant.start + variant.length
    IN  \/ (read.pos < variant.start /\ end_pos(read.pos, read.cigar) > variant.start)
        \/ (read.pos < end /\ end_pos(read.pos, read.cigar) > end)

(* l at shift p: a u32 subtraction that can underflow *)
Shift(p, underflow, l) == [p |-> p, underflow |-> underflow, l |-> l]

adjusted_length(start, p, l) ==
    IF start >= p THEN Shift(p, FALSE, l)
    ELSE IF p - start <= l THEN Shift(p, FALSE, l - (p - start))
    ELSE Shift(p, TRUE, 0)

IndelOut(asserted, shifts) == [asserted |-> asserted, shifts |-> shifts]
NoIndelOut == IndelOut(TRUE, <<>>)

(* the loop over the shifts from p on: a build with overflow checks ends   *)
(* (panics) at the first underflow, one without goes on                    *)
RECURSIVE shifts_from(_, _, _, _, _)
shifts_from(p, pos_max, start, l, checked) ==
    IF p >= pos_max THEN <<>>
    ELSE LET shift == adjusted_length(start, p, l)
         IN  IF shift.underflow /\ checked THEN <<shift>>
             ELSE <<shift>> \o shifts_from(p + 1, pos_max, start, l, checked)

prob_read_indel(read, variant, checked) ==
    LET pos == read.pos
        m == seq_len(read.cigar)
        pos_min == Max(saturating_sub(pos, total_indel_len(read.cigar)),
                       saturating_sub(variant.start, m))
        pos_max == pos + total_indel_len(read.cigar) + 1
    IN  IF ~(pos >= pos_min /\ pos <= pos_max) THEN IndelOut(FALSE, <<>>)
        ELSE IndelOut(TRUE, shifts_from(pos_min, pos_max, variant.start, variant.length,
                                        checked))

RiIdle ==
    /\ ri_overflow_checks = FALSE
    /\ ri_read = IndelRead(0, <<>>)
    /\ ri_variant = SampleVariant("Deletion", 0, 0)
    /\ ri_out = NoIndelOut
    /\ ri_stage = "idle"

RiInit ==
    /\ ri_overflow_checks \in BOOLEAN
    /\ ri_variant \in { SampleVariant(k, s, l) :
                            k \in {"Deletion", "Insertion"}, s \in 0..MaxIndelStart,
                            l \in 1..MaxVariantLen }
    /\ ri_read \in { IndelRead(p, c) : p \in 0..MaxIndelReadPos, c \in IndelCigars }
    /\ passed_to_read_observation(ri_read, ri_variant)
    /\ ri_out = NoIndelOut
    /\ ri_stage = "new"

ProbReadIndel ==
    /\ ri_stage = "new"
    /\ ri_out' = prob_read_indel(ri_read, ri_variant, ri_overflow_checks)
    /\ ri_stage' = "done"
    /\ UNCHANGED <<nonRiVars, ri_overflow_checks, ri_read, ri_variant>>

RiNext == ProbReadIndel

-----------------------------------------------------------------------------
(* Specifications                                                          *)

PipeInit ==
    PipeStart /\ ValIdle /\ ObsIdle /\ HdrIdle /\ SnvIdle /\ GridIdle
    /\ BiasIdle /\ CombosIdle /\ RbIdle /\ EmIdle /\ TcIdle /\ RsIdle
    /\ MqIdle /\ NfIdle /\ GpIdle /\ LkIdle /\ XoIdle /\ RiIdle

PipeIdle ==
    /\ input = <<>>
    /\ nworkers = 1
    /\ breakend_index = [e \in Events |-> NoIndex]
    /\ pre_i = 0
    /\ pre_done = FALSE
    /\ in_chan = <<>>
    /\ out_chan = <<>>
    /\ wstate = [w \in 1..MaxWorkers |-> "idle"]
    /\ wrec = [w \in 1..MaxWorkers |-> NoRecord]
    /\ wcalls = [w \in 1..MaxWorkers |-> NoCalls]
    /\ breakend_group_builders = [e \in Events |-> AbsentBuilder]
    /\ breakend_groups = [e \in Events |-> AbsentGroup]
    /\ buffer = {}
    /\ next_index = 0
    /\ written = <<>>
    /\ post_done = FALSE
    /\ result = "running"
    /\ exit_code = NoExit
    /\ stdout = <<>>
    /\ stderr = <<>>

SpecPipeline == PipeInit /\ [][PipeNext]_vars

ValSpecInit ==
    ValInit /\ PipeIdle /\ ObsIdle /\ HdrIdle /\ SnvIdle /\ GridIdle
    /\ BiasIdle /\ CombosIdle /\ RbIdle /\ EmIdle /\ TcIdle /\ RsIdle
    /\ MqIdle /\ NfIdle /\ GpIdle /\ LkIdle /\ XoIdle /\ RiIdle
SpecValues == ValSpecInit /\ [][ValNext]_vars

ObsSpecInit ==
    ObsInit /\ PipeIdle /\ ValIdle /\ HdrIdle /\ SnvIdle /\ GridIdle
    /\ BiasIdle /\ CombosIdle /\ RbIdle /\ EmIdle /\ TcIdle /\ RsIdle
    /\ MqIdle /\ NfIdle /\ GpIdle /\ LkIdle /\ XoIdle /\ RiIdle
SpecObservations == ObsSpecInit /\ [][ObsNext]_vars

HdrSpecInit ==
    HdrInit /\ PipeIdle /\ ValIdle /\ ObsIdle /\ SnvIdle /\ GridIdle
    /\ BiasIdle /\ CombosIdle /\ RbIdle /\ EmIdle /\ TcIdle /\ RsIdle
    /\ MqIdle /\ NfIdle /\ GpIdle /\ LkIdle /\ XoIdle /\ RiIdle
SpecHeader == HdrSpecInit /\ [][HdrNext]_vars

SnvSpecInit ==
    SnvInit /\ PipeIdle /\ ValIdle /\ ObsIdle /\ HdrIdle /\ GridIdle
    /\ BiasIdle /\ CombosIdle /\ RbIdle /\ EmIdle /\ TcIdle /\ RsIdle
    /\ MqIdle /\ NfIdle /\ GpIdle /\ LkIdle /\ XoIdle /\ RiIdle
SpecSnv == SnvSpecInit /\ [][SnvNext]_vars

GridSpecInit ==
    GridInit /\ PipeIdle /\ ValIdle /\ ObsIdle /\ HdrIdle /\ SnvIdle
    /\ BiasIdle /\ CombosIdle /\ RbIdle /\ EmIdle /\ TcIdle /\ RsIdle
    /\ MqIdle /\ NfIdle /\ GpIdle /\ LkIdle /\ XoIdle /\ RiIdle
SpecGrid == GridSpecInit /\ [][GridNext]_vars

BiasSpecInit ==
    BiasInit /\ PipeIdle /\ ValIdle /\ ObsIdle /\ HdrIdle /\ SnvIdle
    /\ GridIdle /\ CombosIdle /\ RbIdle /\ EmIdle /\ TcIdle /\ RsIdle
    /\ MqIdle /\ NfIdle /\ GpIdle /\ LkIdle /\ XoIdle /\ RiIdle
SpecBias == BiasSpecInit /\ [][BiasNext]_vars

CombosSpecInit ==
    CombosInit /\ PipeIdle /\ ValIdle /\ ObsIdle /\ HdrIdle /\ SnvIdle
    /\ GridIdle /\ BiasIdle /\ RbIdle /\ EmIdle /\ TcIdle /\ RsIdle /\ MqIdle
    /\ NfIdle /\ GpIdle /\ LkIdle /\ XoIdle /\ RiIdle
SpecCombos == CombosSpecInit /\ [][CombosNext]_vars

RbSpecInit ==
    RbInit /\ PipeIdle /\ ValIdle /\ ObsIdle /\ HdrIdle /\ SnvIdle
    /\ GridIdle /\ BiasIdle /\ CombosIdle /\ EmIdle /\ TcIdle /\ RsIdle
    /\ MqIdle /\ NfIdle /\ GpIdle /\ LkIdle /\ XoIdle /\ RiIdle
SpecRecordBuffer == RbSpecInit /\ [][RbNext]_vars

EmSpecInit ==
    EmInit /\ PipeIdle /\ ValIdle /\ ObsIdle /\ HdrIdle /\ SnvIdle
    /\ GridIdle /\ BiasIdle /\ CombosIdle /\ RbIdle /\ TcIdle /\ RsIdle
    /\ MqIdle /\ NfIdle /\ GpIdle /\ LkIdle /\ XoIdle /\ RiIdle
SpecEmission == EmSpecInit /\ [][EmNext]_vars

TcSpecInit ==
    TcInit /\ PipeIdle /\ ValIdle /\ ObsIdle /\ HdrIdle /\ SnvIdle
    /\ GridIdle /\ BiasIdle /\ CombosIdle /\ RbIdle /\ EmIdle /\ RsIdle
    /\ MqIdle /\ NfIdle /\ GpIdle /\ LkIdle /\ XoIdle /\ RiIdle
SpecTestcase == TcSpecInit /\ [][TcNext]_vars

RsSpecInit ==
    RsInit /\ PipeIdle /\ ValIdle /\ ObsIdle /\ HdrIdle /\ SnvIdle
    /\ GridIdle /\ BiasIdle /\ CombosIdle /\ RbIdle /\ EmIdle /\ TcIdle
    /\ MqIdle /\ NfIdle /\ GpIdle /\ LkIdle /\ XoIdle /\ RiIdle
SpecReadSnv == RsSpecInit /\ [][RsNext]_vars

MqSpecInit ==
    MqInit /\ PipeIdle /\ ValIdle /\ ObsIdle /\ HdrIdle /\ SnvIdle
    /\ GridIdle /\ BiasIdle /\ CombosIdle /\ RbIdle /\ EmIdle /\ TcIdle
    /\ RsIdle /\ NfIdle /\ GpIdle /\ LkIdle /\ XoIdle /\ RiIdle
SpecAdjustMapq == MqSpecInit /\ [][MqNext]_vars

NfSpecInit ==
    NfInit /\ PipeIdle /\ ValIdle /\ ObsIdle /\ HdrIdle /\ SnvIdle
    /\ GridIdle /\ BiasIdle /\ CombosIdle /\ RbIdle /\ EmIdle /\ TcIdle
    /\ RsIdle /\ MqIdle /\ GpIdle /\ LkIdle /\ XoIdle /\ RiIdle
SpecFragmentPositions == NfSpecInit /\ [][NfNext]_vars

GpSpecInit ==
    GpInit /\ PipeIdle /\ ValIdle /\ ObsIdle /\ HdrIdle /\ SnvIdle
    /\ GridIdle /\ BiasIdle /\ CombosIdle /\ RbIdle /\ EmIdle /\ TcIdle
    /\ RsIdle /\ MqIdle /\ NfIdle /\ LkIdle /\ XoIdle /\ RiIdle
SpecPosterior == GpSpecInit /\ [][GpNext]_vars

LkSpecInit ==
    LkInit /\ PipeIdle /\ ValIdle /\ ObsIdle /\ HdrIdle /\ SnvIdle
    /\ GridIdle /\ BiasIdle /\ CombosIdle /\ RbIdle /\ EmIdle /\ TcIdle
    /\ RsIdle /\ MqIdle /\ NfIdle /\ GpIdle /\ XoIdle /\ RiIdle
SpecLikelihood == LkSpecInit /\ [][LkNext]_vars

XoSpecInit ==
    XoInit /\ PipeIdle /\ ValIdle /\ ObsIdle /\ HdrIdle /\ SnvIdle
    /\ GridIdle /\ BiasIdle /\ CombosIdle /\ RbIdle /\ EmIdle /\ TcIdle
    /\ RsIdle /\ MqIdle /\ NfIdle /\ GpIdle /\ LkIdle /\ RiIdle
SpecExtractObservations == XoSpecInit /\ [][XoNext]_vars

RiSpecInit ==
    RiInit /\ PipeIdle /\ ValIdle /\ ObsIdle /\ HdrIdle /\ SnvIdle
    /\ GridIdle /\ BiasIdle /\ CombosIdle /\ RbIdle /\ EmIdle /\ TcIdle
    /\ RsIdle /\ MqIdle /\ NfIdle /\ GpIdle /\ LkIdle /\ XoIdle
SpecReadIndel == RiSpecInit /\ [][RiNext]_vars


(* Every enabled thread of the pool, and main after it, eventually runs.   *)
FairSpecPipeline == PipeInit /\ [][PipeNext]_vars /\ WF_vars(PipeNext)

-----------------------------------------------------------------------------
(* Properties of the preprocessing pipeline *)

Exited == exit_code # NoExit

HasFailure(rec) == \E k \in 1..Len(rec) : rec[k].fails

WrittenLoci == { written[a].call.locus : a \in 1..Len(written) }

C2_OneCallPerRecord ==
    (/\ Exited /\ result = "ok"
     /\ \A i \in 1..Len(input) : input[i] \in {<<SNV(FALSE)>>, <<BND("e1", TRUE)>>})
    => /\ Len(written) = Len(input)
       /\ \A i \in 0..(Len(input) - 1) :
            Cardinality({a \in 1..Len(written) : written[a].call.locus = i}) = 1

(* C4, as claimed: for an event whose breakend records are all supported,  *)
(* processing a record that is not the event's last record emits no call,  *)
(* and processing the last record emits one call per breakend record of    *)
(* the event, in the bundle with the last record's index.                  *)
AllSupported(e) ==
    /\ EventRecords(input, e) # {}
    /\ \A i \in EventRecords(input, e) : input[i + 1] = <<BND(e, TRUE)>>

C4_LastRecordEmitsGroup ==
    \A w \in Workers : \A e \in Events :
        (wstate[w] = "tosend" /\ AllSupported(e) /\ HasEvent(wrec[w].variants, e))
        => IF wrec[w].record_index = breakend_index[e]
           THEN /\ wcalls[w].index = breakend_index[e]
                /\ Len(wcalls[w].calls) = Cardinality(EventRecords(input, e))
                /\ { wcalls[w].calls[j].locus : j \in 1..Len(wcalls[w].calls) }
                     = EventRecords(input, e)
           ELSE wcalls[w].calls = <<>>

(* C5: once process_record has returned an error in some worker, every     *)
(* thread of the pool ends (none stays blocked on a channel), process()    *)
(* returns an error and the process exits with a non-zero code.            *)
C5_ErrorExitsNonZero ==
    (\E w \in 1..MaxWorkers : wstate[w] = "failed")
        ~> (/\ pre_done /\ AllStopped /\ post_done
            /\ result = "err"
            /\ Exited /\ exit_code # 0)

(* C5, witness: a worker failed while another one ended normally, calls    *)
(* were written, and the process has exited.                               *)
C5_Witness ==
    /\ \E w \in Workers : wstate[w] = "failed"
    /\ \E w \in Workers : wstate[w] = "done"
    /\ written # <<>>
    /\ exit_code = 1

-----------------------------------------------------------------------------
(* Properties of the observation format *)

ProbFieldSet == { ProbFields[k] : k \in 1..Len(ProbFields) }

(* C3: read_observations applied to the record filled by                   *)
(* write_observations(p) returns as many observations as p holds, in the   *)
(* same order; observation i has the forward_strand and reverse_strand of  *)
(* p[i], and each of its seven probability fields is the MiniLogProb       *)
(* quantisation of the same field of p[i].                                 *)
C3_ObservationsRoundTrip ==
    (obs_stage = "read" /\ bcf_record # EmptyRecord)
    => /\ decoded.ok
       /\ Len(decoded.obs) = Len(pileup)
       /\ \A i \in 1..Len(pileup) :
            /\ decoded.obs[i].forward_strand = pileup[i].forward_strand
            /\ decoded.obs[i].reverse_strand = pileup[i].reverse_strand
            /\ \A f \in ProbFieldSet :
                 decoded.obs[i][f] = MiniLogProb_to_logprob(MiniLogProb_new(pileup[i][f]))

(* C3, witness: a pileup of two observations with different flags was      *)
(* written and read back, and a probability was quantised on the way.      *)
C3_Witness ==
    /\ obs_stage = "read"
    /\ bcf_record # EmptyRecord
    /\ Len(pileup) = 2
    /\ Len(decoded.obs) = 2
    /\ pileup[1].prob_ref = -300
    /\ decoded.obs[1].prob_ref = -256
    /\ pileup[2].prob_alt = LnZero
    /\ pileup[1].forward_strand /\ ~pileup[2].forward_strand
    /\ ~pileup[1].reverse_strand /\ pileup[2].reverse_strand

HasVersion(hdr, version) ==
    \E k \in 1..Len(hdr) :
        hdr[k] = Generic("varlociraptor_observation_format_version", version)

(* C7, as claimed: reading a header whose record                           *)
(* varlociraptor_observation_format_version is absent or differs from      *)
(* OBSERVATION_FORMAT_VERSION fails with an observation-format error;      *)
(* options are returned only when the versions are equal.                  *)
C7_VersionCheckedOnRead ==
    hdr_stage = "read"
    => /\ options_result.ok => HasVersion(header, OBSERVATION_FORMAT_VERSION)
       /\ (header # plain_header(n_contigs)
           /\ ~HasVersion(header, OBSERVATION_FORMAT_VERSION))
          => (~options_result.ok /\ options_result.error = "InvalidObservationFormat")

(* C8: push_values writes ceil(len(b)/2) integers, all in 0..65535 and     *)
(* hence none negative and none the maximum i32; read_values gives back b  *)
(* when len(b) is even and b followed by one zero byte when it is odd.     *)
C8_ValuesTransport ==
    /\ val_stage \in {"pushed", "read"} =>
         /\ Len(values_i32) = (Len(encoded_values) + 1) \div 2
         /\ \A k \in 1..Len(values_i32) :
              values_i32[k] \in 0..65535 /\ values_i32[k] # I32Max
    /\ val_stage = "read" =>
         values_u8 = IF Len(encoded_values) % 2 = 1
                     THEN Append(encoded_values, 0)
                     ELSE encoded_values

(* C8, witness: three bytes, the last one 255, were pushed as two integers *)
(* and read back as four bytes.                                            *)
C8_Witness ==
    /\ val_stage = "read"
    /\ encoded_values = <<1, 128, 255>>
    /\ values_i32 = <<32769, 255>>
    /\ values_u8 = <<1, 128, 255, 0>>

-----------------------------------------------------------------------------
(* Properties of the SNV likelihoods *)

SameBase(a, b) == to_ascii_uppercase(a) = to_ascii_uppercase(b)

SnvOrdered ==
    /\ SameBase(snv_in.read_base, snv_in.ref_base) => snv_out.prob_ref > snv_out.prob_alt
    /\ SameBase(snv_in.read_base, snv_in.alt_base) => snv_out.prob_alt > snv_out.prob_ref

(* C9, as amended: for base qualities of at least 2, and alt different     *)
(* from ref, a read base equal to the reference base has P(ref) > P(alt)   *)
(* and a read base equal to the alt base has P(alt) > P(ref); bases are    *)
(* compared case-insensitively.                                            *)
C9_LikelihoodOrderFromQual2 ==
    (/\ snv_stage = "done"
     /\ ~SameBase(snv_in.ref_base, snv_in.alt_base)
     /\ snv_in.base_qual >= 2)
    => SnvOrdered

(* C9, witness: at base quality 2 a lowercase read base that equals the    *)
(* uppercase reference base has P(ref) > P(alt).                           *)
C9_Witness ==
    /\ snv_stage = "done"
    /\ snv_in = [read_base |-> 97, ref_base |-> 65, alt_base |-> 67, base_qual |-> 2]
    /\ snv_out.prob_ref > snv_out.prob_alt

(* C9, as claimed: the ordering holds for every base quality in 0..255. *)
C9_LikelihoodOrderAllQuals ==
    (/\ snv_stage = "done"
     /\ ~SameBase(snv_in.ref_base, snv_in.alt_base))
    => SnvOrdered

-----------------------------------------------------------------------------
(* Properties of the grid *)

RECURSIVE BitOr(_, _)
BitOr(a, b) ==
    IF a = 0 THEN b
    ELSE IF b = 0 THEN a
    ELSE Max(a % 2, b % 2) + 2 * BitOr(a \div 2, b \div 2)

(* C10: for every sample, with n observations in its pileup and            *)
(* resolution r, grid_points returns min(max(n + 1, 5), r) bitwise-or 1,   *)
(* and this value is odd.                                                  *)
C10_GridPointsOdd ==
    grid_stage = "done"
    => /\ Len(grid_out) = Len(grid_pileups)
       /\ \A s \in 1..Len(grid_pileups) :
            /\ grid_out[s] = BitOr(Min(Max(grid_pileups[s] + 1, 5), grid_resolutions[s]), 1)
            /\ grid_out[s] % 2 = 1

(* C10, witness: two samples, one clamped by an even resolution and one    *)
(* with an even number of pileup observations plus one.                    *)
C10_Witness ==
    /\ grid_stage = "done"
    /\ grid_pileups = <<7, 5>>
    /\ grid_resolutions = <<4, 9>>
    /\ grid_out = <<5, 7>>

-----------------------------------------------------------------------------
(* Properties of the biases *)

TwoThirdsStrong(p) == 3 * p.strong_bias >= 2 * (p.strong_bias + p.strong_other)

(* C11, as amended: for a bias other than the default, Bias::is_likely     *)
(* returns true if and only if some pileup either has fewer than 10 strong *)
(* observations, or has at least 10 of which at least two thirds have bias *)
(* probability one; with no pileup at all it returns false.                *)
C11_LikelyFromTenStrong ==
    (bias_stage = "done" /\ ~bias_is_default)
    => (bias_likely <=>
          \E k \in 1..Len(bias_pileups) :
             \/ bias_pileups[k].strong_bias + bias_pileups[k].strong_other < 10
             \/ TwoThirdsStrong(bias_pileups[k]))

(* C11, witness: two pileups of at least 10 strong observations, one below *)
(* and one at two thirds, make a non-default bias likely.                  *)
C11_Witness ==
    /\ bias_stage = "done"
    /\ ~bias_is_default
    /\ Len(bias_pileups) = 2
    /\ bias_pileups[1] = BiasPileup(6, 4)
    /\ bias_pileups[2] = BiasPileup(7, 3)
    /\ bias_likely

(* C11, as claimed: for a bias other than the default, Bias::is_likely     *)
(* returns true if and only if at least two thirds of the strong           *)
(* observations of some pileup have bias probability one, whatever the     *)
(* number of strong observations.                                          *)
C11_LikelyIffTwoThirds ==
    (bias_stage = "done" /\ ~bias_is_default)
    => (bias_likely <=> \E k \in 1..Len(bias_pileups) : TwoThirdsStrong(bias_pileups[k]))

AllBiases ==
    [strand_bias : {"None", "Forward", "Reverse"},
     read_orientation_bias : {"None", "F1R2", "F2R1"},
     read_position_bias : {"None", "Some"},
     softclip_bias : {"None", "Some"}]

(* C12: for every choice of the four flags, all_artifact_combinations      *)
(* yields, each exactly once, precisely the combinations with exactly one  *)
(* artifact component in which every component whose flag is false is      *)
(* None; the all-None combination is never yielded, and nothing is yielded *)
(* when all four flags are false.                                          *)
C12_SingleArtifactCombinations ==
    /\ \A k \in 1..Len(combos_out) : combos_out[k] # none
    /\ \A j, k \in 1..Len(combos_out) : j # k => combos_out[j] # combos_out[k]
    /\ combos_stage = "done" =>
         /\ { combos_out[k] : k \in 1..Len(combos_out) }
              = { b \in AllBiases :
                    /\ \E c \in ComponentSet :
                         /\ b[c] # "None"
                         /\ \A d \in ComponentSet \ {c} : b[d] = "None"
                    /\ \A c \in ComponentSet : ~consider[c] => b[c] = "None" }
         /\ (\A c \in ComponentSet : ~consider[c]) => combos_out = <<>>

(* C12, witness: with strand and read position bias considered, the        *)
(* iterator ended after yielding Forward, Reverse and the read position    *)
(* artifact.                                                               *)
C12_Witness ==
    /\ combos_stage = "done"
    /\ consider = [strand_bias |-> TRUE, read_orientation_bias |-> FALSE,
                   read_position_bias |-> TRUE, softclip_bias |-> FALSE]
    /\ combos_pos = 6
    /\ Len(combos_out) = 3
    /\ combos_out[1].read_position_bias = "Some"
    /\ combos_out[2].strand_bias = "Forward"
    /\ combos_out[3].strand_bias = "Reverse"

-----------------------------------------------------------------------------
(* Properties of the RecordBuffer *)

Eligible(record) ==
    /\ record.flag \notin {"duplicate", "unmapped"}
    /\ rb_use_secondary \/ record.flag # "secondary"

(* C13: after any sequence of fill calls the buffer holds no duplicate, no *)
(* unmapped record and, when use_secondary is false, no secondary          *)
(* alignment.                                                              *)
C13_BufferHoldsEligibleOnly ==
    \A k \in 1..Len(rb_inner) :
        /\ rec_of(rb_inner[k]).flag # "duplicate"
        /\ rec_of(rb_inner[k]).flag # "unmapped"
        /\ ~rb_use_secondary => rec_of(rb_inner[k]).flag # "secondary"

(* C13, witness: a fill over a secondary alignment and a primary one, with *)
(* use_secondary false, buffered the primary one only.                     *)
C13_Witness ==
    /\ rb_call = FillCall("chr1", 0, 1, TRUE)
    /\ ~rb_use_secondary
    /\ rb_bam.chr1 = <<BamRecord(0, 1, "secondary"), BamRecord(1, 1, "ok")>>
    /\ rb_inner = <<Rec("chr1", 2)>>
    /\ Len(rb_log) = 2

Wanted(chrom, start, end) ==
    { i \in 1..Len(rb_bam[chrom]) :
        /\ Eligible(rb_bam[chrom][i])
        /\ rb_bam[chrom][i].pos >= window_start_of(start)
        /\ rb_bam[chrom][i].pos <= end + rb_window }

(* C14, as claimed: after each fill(chrom, start, end) the buffer holds,   *)
(* in BAM order and each exactly once, every eligible record of chrom with *)
(* a position between max(start - window - 1, 0) and end + window, and no  *)
(* record was read twice from the reader since its last seek.              *)
C14_BufferCoversWindow ==
    rb_call.ok =>
        /\ \A j, k \in 1..Len(rb_inner) :
             j < k => /\ rb_inner[j].tid = rb_inner[k].tid
                      /\ rb_inner[j].idx < rb_inner[k].idx
        /\ \A i \in Wanted(rb_call.chrom, rb_call.start, rb_call.end) :
             \E k \in 1..Len(rb_inner) : rb_inner[k] = Rec(rb_call.chrom, i)
        /\ \A j, k \in 1..Len(rb_log) : j # k => rb_log[j] # rb_log[k]

(* the alt allele of an insertion: the reference up to and with the anchor, *)
(* the inserted bases, the rest of the reference                           *)
InsertionHaplotype(p) ==
    SubSeq(p.ref_seq, 1, p.ins_start + 1) \o p.ins_seq
        \o SubSeq(p.ref_seq, p.ins_start + 2, Len(p.ref_seq))

(* C15: for an insertion and every index i below len_x, ref_base(i) is the *)
(* element ref_offset + i of the alt allele ref[0..=start] ++ ins_seq ++   *)
(* ref[start+1..], and no access to ref_seq or ins_seq is out of bounds,   *)
(* also when the window is clipped at the start or end of the contig.      *)
C15_InsertionRefBase ==
    (em_stage \in {"emitted", "panicked"}
        /\ em_params.kind \in {"Insertion", "IndelInsertion"}) =>
        /\ em_base.ok
        /\ em_base = Indexed(InsertionHaplotype(em_params), em_params.ref_offset + em_i)

(* C15, witness: a window clipped at both ends of the contig, and the base *)
(* asked for is the last of the reference, behind the inserted bases.      *)
C15_Witness ==
    /\ em_stage = "emitted"
    /\ em_params = alt_emission_params(<<67, 67>>, 1, <<65, 65, 67>>, 2)
    /\ em_params.ref_offset = 0
    /\ em_params.ref_end = Len(em_params.ref_seq)
    /\ em_i = len_x(em_params) - 1
    /\ em_i + em_params.ref_offset > em_params.ins_end
    /\ em_base = [ok |-> TRUE, base |-> 67]

(* the alt allele of a deletion: the reference without the del_len bases   *)
(* that follow del_start                                                   *)
DeletionHaplotype(p) ==
    SubSeq(p.ref_seq, 1, p.del_start + 1)
        \o SubSeq(p.ref_seq, p.del_start + p.del_len + 2, Len(p.ref_seq))

(* C16, as claimed: for a deletion and every index i below len_x,          *)
(* ref_base(i) is the element ref_offset + i of the reference without the  *)
(* del_len bases that follow del_start, and every access stays inside      *)
(* ref_seq, also for deletions near the end of the contig.                 *)
C16_DeletionRefBase ==
    (em_stage \in {"emitted", "panicked"} /\ em_params.kind = "Deletion") =>
        /\ em_base.ok
        /\ em_base = Indexed(DeletionHaplotype(em_params), em_params.ref_offset + em_i)

(* the bundle of the record was written, so the record has been processed  *)
Processed(i) == i # NoIndex /\ next_index > i

(* C17, as claimed: once the last record of a breakend event has been      *)
(* processed, neither breakend_group_builders nor breakend_groups holds an *)
(* entry for the event, so that both maps are empty after the last record. *)
C17_BreakendMapsCleared ==
    \A e \in Events :
        Processed(breakend_index[e]) =>
            /\ breakend_group_builders[e] = AbsentBuilder
            /\ breakend_groups[e] = AbsentGroup

(* C18, as claimed: the process exits with code 0 exactly when run returns *)
(* Ok; when run returns an error the exit code is not 0, the one line of   *)
(* the error is on STDERR and STDOUT holds nothing for the error.          *)
C18_ErrorOnStderr ==
    Exited =>
        /\ (exit_code = 0 <=> result = "ok")
        /\ result = "err" => /\ exit_code # 0
                             /\ stderr = <<ErrorLine>>
                             /\ stdout = <<>>

(* the alleles of all records at a position, in file order; an allele that *)
(* collect_variants returns as None keeps its place in the count           *)
RECURSIVE LocusAlleles(_, _)
LocusAlleles(k, pos) ==
    IF k > Len(tc_candidates) THEN <<>>
    ELSE (IF tc_candidates[k].pos = pos
          THEN [a \in 1..Len(tc_candidates[k].variants) |->
                   [candidate |-> Candidate(k, a),
                    some |-> tc_candidates[k].variants[a] = "some"]]
          ELSE <<>>) \o LocusAlleles(k + 1, pos)

(* C19, as claimed: for a locus CHROM:POS[:IDX], write chooses the IDX-th  *)
(* variant (from 1, the first without IDX) among the variants of all       *)
(* records at CHROM:POS in file order, also with several records at the    *)
(* locus, and returns InvalidIndex when IDX exceeds their number; a locus  *)
(* with POS = 0 or IDX = 0 is an error, not an arithmetic underflow.       *)
C19_SelectsIdxThVariant ==
    /\ (tc_stage \in {"built", "written", "failed"} /\ tc_locus.matches
            /\ (tc_locus.pos = 0 \/ tc_locus.idx = 0)) =>
          /\ tc_stage = "failed"
          /\ tc_builder.res \notin {"ok", "panic"}
    /\ (tc_stage = "written" /\ tc_locus.pos >= 1 /\ tc_locus.idx # 0) =>
          LET alleles == LocusAlleles(1, tc_locus.pos - 1)
              want == IF tc_locus.idx = NoIdx THEN 1 ELSE tc_locus.idx
          IN  /\ (want <= Len(alleles) /\ alleles[want].some) =>
                    tc_written = Written("ok", alleles[want].candidate)
              /\ (alleles # <<>> /\ want > Len(alleles)) =>
                    tc_written = Written("InvalidIndex", NoCandidate)

(* no variant of the input fails in evidence extraction *)
NoRecordFails ==
    \A i \in 1..Len(input) : \A k \in 1..Len(input[i]) : ~input[i][k].fails

(* every record was read and received by a worker, every index 0..N-1 was  *)
(* handed to the postprocessor in its bundle, all threads ended and        *)
(* process() returned Ok                                                   *)
PipelineCompleted ==
    /\ pre_i = Len(input) /\ in_chan = <<>> /\ out_chan = <<>>
    /\ pre_done /\ AllStopped /\ post_done
    /\ next_index = Len(input) /\ buffer = {}
    /\ result = "ok"

BuilderLoci(builders, e) ==
    { builders[e].bnds[j].locus : j \in 1..Len(builders[e].bnds) }

(* worker w processes the last record of event e and builds its group *)
BuildsGroup(w, e) ==
    /\ wstate[w] = "got" /\ wstate'[w] # "got"
    /\ HasEvent(wrec[w].variants, e)
    /\ wrec[w].record_index = breakend_index[e]
    /\ breakend_group_builders'[e].st = "some"
    /\ wrec[w].locus \in BuilderLoci(breakend_group_builders', e)

(* C21, as claimed: in every interleaving of the workers, when the record  *)
(* at last_record_index(event) builds the breakend group, the builder of   *)
(* the event holds the breakends of all other records of the event, so     *)
(* that the group holds all N breakends.                                   *)
C21_GroupBuiltFromAllRecords ==
    [][\A w \in Workers : \A e \in Events :
          BuildsGroup(w, e) =>
              BuilderLoci(breakend_group_builders', e) = EventRecords(input, e)]_vars

(* some record of the event holds a breakend that Breakend::new rejects *)
HasUnsupported(e) ==
    \E i \in 1..Len(input) : \E k \in 1..Len(input[i]) :
        is_breakend(input[i][k]) /\ input[i][k].event = e /\ ~input[i][k].supported

(* C22, as claimed: an event with a breakend that Breakend::new does not   *)
(* support is rejected for good: no record of the event, processed before  *)
(* or after the unsupported one, the record at last_record_index included, *)
(* yields a call, and no group is built for the event.                     *)
C22_RejectedEventEmitsNothing ==
    \A e \in Events :
        HasUnsupported(e) =>
            /\ ~breakend_groups[e].present
            /\ \A w \in Workers : \A j \in 1..Len(wcalls[w].calls) :
                  ~(wcalls[w].calls[j].kind = "bnd" /\ wcalls[w].calls[j].event = e)

NonBreakends(variants) == SelectSeq(variants, LAMBDA v : ~is_breakend(v))

RecordCalls(calls) == SelectSeq(calls, LAMBDA c : c.kind = "rec")

(* C23, as claimed: the non-breakend variants of a record are, with their  *)
(* pileups and in the record's order, the variant entries of exactly one   *)
(* call of the record's bundle, also when the record holds breakends too.  *)
C23_NonBreakendVariantsCalled ==
    \A w \in Workers :
        (wstate[w] = "tosend" /\ NonBreakends(wrec[w].variants) # <<>>) =>
            /\ Len(RecordCalls(wcalls[w].calls)) = 1
            /\ RecordCalls(wcalls[w].calls)[1].locus = wrec[w].locus
            /\ RecordCalls(wcalls[w].calls)[1].variants = NonBreakends(wrec[w].variants)
            /\ RecordCalls(wcalls[w].calls)[1].pileup

(* the alignment columns of a CIGAR: per base, whether it consumes the     *)
(* reference, the read, and whether it is an aligned base (M, = or X)      *)
RECURSIVE Columns(_)
Columns(cigar) ==
    IF cigar = <<>> THEN <<>>
    ELSE LET op == Head(cigar).op
             col == [ref |-> op \in {"M", "=", "X", "D", "N"},
                     qry |-> op \in {"M", "=", "X", "I", "S"},
                     aligned |-> op \in {"M", "=", "X"}]
         IN  (IF op = "H" THEN <<>> ELSE [j \in 1..Head(cigar).len |-> col])
                 \o Columns(Tail(cigar))

CountBefore(cols, j, field) == Cardinality({ k \in 1..(j - 1) : cols[k][field] })

(* the columns that lie on reference position vpos *)
ColumnsAt(cols, pos, vpos) ==
    { j \in 1..Len(cols) : cols[j].ref /\ pos + CountBefore(cols, j, "ref") = vpos }

(* C24, as claimed: prob_read_snv returns Some exactly when vpos is        *)
(* covered by an M, = or X operation, and then reads the base at the query *)
(* offset equal to the number of read bases consumed before vpos (hard     *)
(* clips consume nothing); it returns None, without panic, when vpos lies  *)
(* in a D or N operation or beyond the last operation of the read.         *)
C24_SnvQueryOffset ==
    rs_stage = "done" =>
        LET cols == Columns(rs_cigar)
            at == ColumnsAt(cols, rs_pos, rs_vpos)
        IN  IF \E j \in at : cols[j].aligned
            THEN \E j \in at : rs_out = SnvOut("some", CountBefore(cols, j, "qry"))
            ELSE rs_out = SnvOut("none", 0)

(* an insert size that is a correctly mapped alt fragment, by its          *)
(* probability: prob_mapping times the posterior of alt                    *)
AltFragment(obs) ==
    IF obs.prob_alt = ln_zero THEN ln_zero
    ELSE LogMul(obs.prob_mapping,
                LogDiv(obs.prob_alt, ln_add_exp(obs.prob_alt, obs.prob_ref)))

(* the probability that none of the insert sizes among the first k         *)
(* observations is a correctly mapped alt fragment                         *)
RECURSIVE NoAltFragment(_, _)
NoAltFragment(observations, k) ==
    IF k = 0 THEN ln_one
    ELSE IF observations[k].evidence = "InsertSize"
    THEN LogMul(ln_one_minus_exp(AltFragment(observations[k])),
                NoAltFragment(observations, k - 1))
    ELSE NoAltFragment(observations, k - 1)

AtLeastOneAltFragment(observations) ==
    ln_one_minus_exp(NoAltFragment(observations, Len(observations)))

Adjusted(obs) == obs.evidence = "Alignment" /\ LogGt(obs.prob_alt, obs.prob_ref)

(* C25: adjust_mapq changes only the prob_mapping of the alignment         *)
(* observations with prob_alt > prob_ref, multiplying it by the            *)
(* probability that at least one insert size is a correctly mapped alt     *)
(* fragment; it becomes 0 when no insert size supports alt (or there is    *)
(* none) and stays as it is when some insert size has prob_mapping 1,      *)
(* prob_alt 1 and prob_ref 0.                                              *)
C25_AdjustMapq ==
    mq_stage = "adjusted" =>
        /\ Len(mq_observations) = Len(mq_before)
        /\ \A k \in 1..Len(mq_before) :
             /\ ~Adjusted(mq_before[k]) => mq_observations[k] = mq_before[k]
             /\ Adjusted(mq_before[k]) =>
                  /\ mq_observations[k] =
                        [mq_before[k] EXCEPT !.prob_mapping =
                            LogMul(AtLeastOneAltFragment(mq_before), mq_before[k].prob_mapping)]
                  /\ (\A j \in 1..Len(mq_before) :
                         mq_before[j].evidence = "InsertSize" => mq_before[j].prob_alt = ln_zero)
                       => mq_observations[k].prob_mapping = ln_zero
                  /\ (\E j \in 1..Len(mq_before) :
                         mq_before[j] = MapqObservation(ln_one, ln_one, ln_zero, "InsertSize"))
                       => mq_observations[k].prob_mapping = mq_before[k].prob_mapping

(* C25, witness: the case of test_adjust_mapq_weak_fragment_evidence, an   *)
(* alignment with prob_mapping 1/2 comes out with 1/4.                     *)
C25_Witness ==
    /\ mq_stage = "adjusted"
    /\ mq_before = << MapqObservation(Half, ln_one, ln_zero, "Alignment"),
                      MapqObservation(ln_one, Half, Half, "InsertSize"),
                      MapqObservation(ln_one, ln_zero, ln_one, "InsertSize") >>
    /\ mq_observations[1].prob_mapping = Frac(1, 4)
    /\ mq_observations[2] = mq_before[2]

(* min(max(insert_size - left_read_len - right_read_len, 0),               *)
(*     max(window - insert_size + 1, 0)) over the integers                 *)
FragmentPositions(a) ==
    WideMin(WideMax(WideSub(WideSub(a.insert_size, a.left_read_len), a.right_read_len),
                    WideOf(0)),
            WideMax(WideAdd(WideSub(a.window, a.insert_size), WideOf(1)), WideOf(0)))

(* C26, as claimed: for all insert sizes, read lengths and window sizes    *)
(* n_fragment_positions returns min(max(insert_size - left_read_len -      *)
(* right_read_len, 0), max(window - insert_size + 1, 0)), which is 0 when  *)
(* the insert size does not exceed both read lengths or exceeds the        *)
(* window, and is never negative.                                          *)
C26_FragmentPositions ==
    nf_stage = "done" =>
        /\ nf_out.ok
        /\ nf_out.value = FragmentPositions(nf_args)
        /\ WideLe(WideOf(0), nf_out.value)

(* C27: in GenericPosterior::compute every joint_prob call at a leaf of    *)
(* the VAF tree gets an event vector with exactly the allele frequencies   *)
(* assigned on the path from the root to the leaf, one entry per sample at *)
(* the position of the sample's index (as long as the pileups), and every  *)
(* exploration sees the assignments of its own path only, never one made   *)
(* while a sibling child or a sibling allele frequency was explored.       *)
NodeVafs(node, grid) ==
    IF node.vafs.kind = "Set" THEN ascending(node.vafs.vafs)
    ELSE grid_vafs(node.vafs.min, node.vafs.max, grid[node.sample + 1])

AssignedVector(assigned) == [k \in 1..Len(gp_pileups) |-> assigned[k - 1]]

RECURSIVE JoinTraces(_)
JoinTraces(traces) ==
    IF traces = <<>> THEN [visits |-> <<>>, calls |-> <<>>]
    ELSE LET rest == JoinTraces(Tail(traces))
         IN  [visits |-> Head(traces).visits \o rest.visits,
              calls |-> Head(traces).calls \o rest.calls]

RECURSIVE PathTrace(_, _, _, _)
PathTrace(node, assigned, grid, strand_bias) ==
    JoinTraces([i \in 1..Len(NodeVafs(node, grid)) |->
        LET path == [assigned EXCEPT ![node.sample] =
                        LikelihoodEvent(NodeVafs(node, grid)[i], strand_bias)]
            below == JoinTraces([c \in 1..Len(node.children) |->
                        PathTrace(node.children[c], path, grid, strand_bias)])
        IN  [visits |-> <<[sample |-> node.sample, base_events |-> path]>> \o below.visits,
             calls |-> IF is_leaf(node) THEN <<AssignedVector(path)>> ELSE below.calls]])

C27_LeafEventVectors ==
    \A r \in 1..Len(gp_out) :
        LET paths == PathTrace(gp_event.vafs[r], EmptyBaseEvents,
                               grid_points(gp_pileups, gp_resolutions),
                               gp_event.strand_bias)
        IN  /\ gp_out[r].visits = paths.visits
            /\ gp_out[r].calls = paths.calls
            /\ \A c \in 1..Len(gp_out[r].calls) :
                    Len(gp_out[r].calls[c]) = Len(gp_pileups)

C27_Witness ==
    /\ gp_stage = "done"
    /\ \E r \in 1..Len(gp_out) :
        LET root == gp_event.vafs[r]
        IN  /\ root.sample = 1
            /\ root.vafs.kind = "Range"
            /\ is_branching(root)
            /\ root.children[1].vafs = VAFSet({2})
            /\ root.children[2].vafs = VAFSet({0, 4})
            /\ Len(gp_out[r].calls) >= 9

(* C28: over any sequence of GenericLikelihood::compute calls with one     *)
(* cache, the cache entry of sample i is a ContaminatedSample entry        *)
(* exactly when sample i has a contamination and a SingleSample entry      *)
(* otherwise, no call reaches unreachable!(), and `by` is a valid index of *)
(* the event vector in events[by].                                         *)
C28_CacheEntriesMatch ==
    /\ lk_out.panic = "none"
    /\ \A i \in DOMAIN lk_cache :
         /\ lk_cache[i] = "ContaminatedSample" => lk_inner[i + 1].kind = "Contaminated"
         /\ lk_cache[i] = "SingleSample" => lk_inner[i + 1].kind = "Normal"
         /\ lk_calls > 0 => lk_cache[i] # NoCacheEntry
    /\ lk_calls > 0 =>
         \A i \in 1..Len(lk_inner) :
            lk_inner[i].kind = "Contaminated"
            => /\ lk_inner[i].by \in 0..(Len(lk_events) - 1)
               /\ lk_out.terms[i].secondary = lk_events[lk_inner[i].by + 1]

C28_Witness ==
    /\ lk_calls = MaxComputeCalls
    /\ \E i, j \in 1..Len(lk_inner) :
         /\ lk_inner[i].kind = "Contaminated"
         /\ lk_inner[i].by = j - 1
         /\ lk_inner[j].kind = "Normal"
         /\ lk_cache[i - 1] = "ContaminatedSample"
         /\ lk_cache[j - 1] = "SingleSample"
         /\ lk_events[i] # lk_events[j]

(* C29: in Sample::extract_observations every buffered record contributes  *)
(* at most one observation and every read pair (query name) at most one    *)
(* fragment observation; a fragment observation is made only for a record  *)
(* right of the variant centerpoint whose mate was seen earlier, ending at *)
(* or before the centerpoint with a mate position at or after it; and a    *)
(* record that overlaps the variant is never used as fragment evidence.    *)
FragmentObservations == { o \in DOMAIN xo_observations : xo_observations[o].kind = "fragment" }

OneObservationPerRecord ==
    \A o, p \in DOMAIN xo_observations :
        xo_observations[o].record = xo_observations[p].record => o = p

OneFragmentPerPair ==
    \A o, p \in FragmentObservations :
        xo_records[xo_observations[o].record].qname
            = xo_records[xo_observations[p].record].qname => o = p

FragmentOfMatesAcrossCenter ==
    \A o \in FragmentObservations :
        LET obs == xo_observations[o]
            record == xo_records[obs.record]
        IN  /\ record.end_pos > varpos_of(xo_variant)
            /\ obs.mate \in 1..(obs.record - 1)
            /\ xo_records[obs.mate].qname = record.qname
            /\ xo_records[obs.mate].end_pos <= varpos_of(xo_variant)
            /\ xo_records[obs.mate].mpos >= varpos_of(xo_variant)

NoFragmentOfOverlappingRecord ==
    \A o \in FragmentObservations :
        ~overlaps_variant(xo_records[xo_observations[o].record], xo_variant)

C29_FragmentObservations ==
    xo_stage = "done"
    => /\ OneObservationPerRecord
       /\ OneFragmentPerPair
       /\ FragmentOfMatesAcrossCenter
       /\ NoFragmentOfOverlappingRecord

(* C30: for every read that extract_observations passes to prob_read_indel *)
(* (pos < start < end_pos or pos < end < end_pos), reads with deletions or *)
(* reference skips in the CIGAR included, the assertion                    *)
(* pos_min <= pos <= pos_max holds, and l - (p - start) underflows at no   *)
(* evaluated shift p.                                                      *)
C30_ShiftsWithinRead ==
    ri_stage = "done"
    => /\ ri_out.asserted
       /\ \A k \in 1..Len(ri_out.shifts) : ~ri_out.shifts[k].underflow

=============================================================================
